---- MODULE Spec2Model ----
(***************************************************************************)
(* Val-Halla: the reconciliation engine (src/src/core/rebuild_manager.py). *)
(*                                                                         *)
(* RebuildManager._rebuild_group is an asyncio coroutine.  Between two     *)
(* awaits it runs without interruption; cancel(), pause() and resume()     *)
(* are plain methods other tasks call while the coroutine is suspended in  *)
(* an await.  The variable pc names the await the coroutine is suspended   *)
(* in; every "...Returns" action is the code from the return of that await *)
(* up to the next await (or the return of the coroutine).                  *)
(***************************************************************************)
EXTENDS Integers, Sequences, FiniteSets, TLC

VARIABLES
    members,            \* the member list handed to _rebuild_group
    roster,             \* remote: the live target group, user_id -> live row
    restore_cards,      \* self.restore_cards
    restore_titles,     \* self.restore_titles
    restore_admins,     \* self.restore_admins
    send_welcome,       \* self.send_welcome
    continue_on_error,  \* self.continue_on_error
    has_callback,       \* progress_callback is not None
    _progress,          \* self._progress
    _cancelled,         \* self._cancelled
    _paused,            \* self._paused
    pc,                 \* the await _rebuild_group is suspended in
    all_members,        \* local all_members
    idx,                \* position of the for loop in all_members
    current_user_ids,   \* local current_user_ids
    bot_user_id,        \* local bot_user_id
    restored,           \* local restored of _restore_member_info
    path,               \* which call of _restore_member_info is running
    trace,              \* history: remote calls and throttle sleeps issued, in order
    callbacks,          \* history: processed as seen by each progress_callback
    report,             \* history: the job as _rebuild_group returned it
    cancel_in_run,      \* history: cancel() was called during the run
    cancel_midrun,      \* history: ... while a member was still to be dequeued
    begun_after_cancel, \* history: a member was dequeued after that cancel()
    dry_pc,             \* the await _dry_run_rebuild is suspended in
    dry_current_map,    \* local current_map of _dry_run_rebuild
    dry_bot_user_id,    \* local bot_user_id of _dry_run_rebuild
    dry_friend_ids,     \* local friend_ids of _dry_run_rebuild
    changes,            \* the "changes" of the preview _dry_run_rebuild returns
    stats,              \* the "statistics" of that preview
    db,                 \* the database as committed
    session,            \* the database as the session of backup_group sees it
    backup_run,         \* backup_group: the await it is suspended in, its locals
    comparison,         \* compare_backups: the await it is suspended in, its locals
    other,              \* the locals of a second _rebuild_group, suspended in an await
    archive,            \* the Backup records as committed, and the backup files
    prune,              \* cleanup_old_backups: the await it is suspended in, its locals
    waiting             \* a second backup_group, suspended in an await: its locals, its session

vars == <<members, roster, restore_cards, restore_titles, restore_admins,
          send_welcome, continue_on_error, has_callback, _progress,
          _cancelled, _paused, pc, all_members, idx, current_user_ids,
          bot_user_id, restored, path, trace, callbacks, report,
          cancel_in_run, cancel_midrun, begun_after_cancel, dry_pc, dry_current_map, dry_bot_user_id,
          dry_friend_ids, changes, stats, db, session, backup_run, comparison, other,
          archive, prune, waiting>>

inputs == <<members, roster, restore_cards, restore_titles, restore_admins,
            send_welcome, continue_on_error, has_callback>>

dry == <<dry_pc, dry_current_map, dry_bot_user_id, dry_friend_ids, changes, stats>>

pruning == <<archive, prune>>

snapshots == <<db, session, backup_run, comparison, pruning, waiting>>

-----------------------------------------------------------------------------
(* Bounds and value domains *)

MaxMembers == 2

\* the user ids of a run
Users == 1..MaxMembers

NoUser == 0

NULL == "NULL"

Roles == {"member", "admin", "owner"}

\* RebuildStatus
PENDING == "pending"
RUNNING == "running"
PAUSED == "paused"
COMPLETED == "completed"
FAILED == "failed"
CANCELLED == "cancelled"

\* InviteStatus
SUCCESS == "success"
SKIPPED == "skipped"

\* `x or ""`: None and "" both become ""
Norm(x) == IF x = NULL THEN "" ELSE x

\* _progress before the first run
NoProgress == [status |-> "none"]

\* RebuildProgress(total=..., status=RUNNING, started_at=...)
RebuildProgress(n) ==
    [total |-> n, processed |-> 0, success |-> 0, failed |-> 0, skipped |-> 0,
     status |-> RUNNING, current_user |-> NoUser, results |-> <<>>,
     completed_at |-> FALSE, error_message |-> ""]

InviteResult(m, st, msg) ==
    [user_id |-> m.user_id, status |-> st, message |-> msg]

\* a remote call (or a sleep) issued by the run or by the preview
Event(by, op, uid, arg) == [by |-> by, op |-> op, uid |-> uid, arg |-> arg]

-----------------------------------------------------------------------------
(* The coroutine's frame: everything _rebuild_group reads and writes *)

Frame ==
    [p |-> _progress, pc |-> pc, all |-> all_members, idx |-> idx,
     ids |-> current_user_ids, bot |-> bot_user_id, restored |-> restored,
     path |-> path, trace |-> trace, callbacks |-> callbacks,
     late |-> begun_after_cancel]

Install(f) ==
    /\ _progress' = f.p
    /\ pc' = f.pc
    /\ all_members' = f.all
    /\ idx' = f.idx
    /\ current_user_ids' = f.ids
    /\ bot_user_id' = f.bot
    /\ restored' = f.restored
    /\ path' = f.path
    /\ trace' = f.trace
    /\ callbacks' = f.callbacks
    /\ begun_after_cancel' = f.late
    /\ report' = IF f.pc = "returned" THEN f.p ELSE report

Member(f) == f.all[f.idx]

\* the coroutine issues a remote call (or a sleep) and is suspended in it
Await(f, at, op, uid, arg) ==
    [f EXCEPT !.pc = at, !.trace = Append(@, Event("run", op, uid, arg))]

\* the mutant of CountOutcome: a skipped member is not counted
CountOutcomeNoSkip(p, st) ==
    IF st = SUCCESS THEN [p EXCEPT !.success = @ + 1]
    ELSE IF st = FAILED THEN [p EXCEPT !.failed = @ + 1]
    ELSE p

\* the counter that goes with an outcome
CountOutcome(p, st) ==
    IF st = SUCCESS THEN [p EXCEPT !.success = @ + 1]
    ELSE IF st = FAILED THEN [p EXCEPT !.failed = @ + 1]
    ELSE [p EXCEPT !.skipped = @ + 1]

\* the mutant of Record: the outcome is appended and processed is left
RecordUncounted(f, st, msg) ==
    [f EXCEPT !.p = CountOutcome(
        [@ EXCEPT !.results = Append(@, InviteResult(Member(f), st, msg))], st)]

\* results.append(result); processed += 1; <counter> += 1
Record(f, st, msg) ==
    [f EXCEPT !.p = CountOutcome(
        [@ EXCEPT !.results = Append(@, InviteResult(Member(f), st, msg)),
                  !.processed = @ + 1], st)]

\* the mutant of Finish: current_user is left as it is
FinishKeeping(f) ==
    LET p1 == IF f.p.status = RUNNING
              THEN [f.p EXCEPT !.status = COMPLETED] ELSE f.p
        p2 == [p1 EXCEPT !.completed_at = TRUE]
        f1 == [f EXCEPT !.p = p2]
    IN IF send_welcome
       THEN Await(f1, "await_end_msg", "send_group_msg", NoUser, "done")
       ELSE [f1 EXCEPT !.pc = "returned"]

\* lines 644-662: the code after the loop, up to the completion notice
Finish(f) ==
    LET p1 == IF f.p.status = RUNNING
              THEN [f.p EXCEPT !.status = COMPLETED] ELSE f.p
        p2 == [p1 EXCEPT !.completed_at = TRUE, !.current_user = NoUser]
        f1 == [f EXCEPT !.p = p2]
    IN IF send_welcome
       THEN Await(f1, "await_end_msg", "send_group_msg", NoUser, "done")
       ELSE [f1 EXCEPT !.pc = "returned"]

\* lines 637-642: the callback, then the throttle sleep
Throttle(f) ==
    Await([f EXCEPT !.callbacks =
                     IF has_callback THEN Append(@, f.p.processed) ELSE @],
          "await_sleep", "sleep", NoUser, "")

RECURSIVE LoopTop(_)

\* lines 593-614: the outcome of a member that is already in the group
PresentOutcome(f, restore_details) ==
    LET f1 == IF restore_details # <<>> THEN Record(f, SUCCESS, "restored")
              ELSE Record(f, SKIPPED, "no_change")
    IN LoopTop([f1 EXCEPT !.idx = @ + 1, !.restored = <<>>, !.path = ""])

\* _restore_member_info has returned to its caller
AfterRestore(f) ==
    LET f1 == [f EXCEPT !.restored = <<>>, !.path = ""]
    IN IF f.path = "present" THEN PresentOutcome(f, f.restored) ELSE Throttle(f1)

\* the mutant of RestoreAdmin: the admin call is made for every role
RestoreAdminAnyRole(f) ==
    IF restore_admins
    THEN Await(f, "await_set_group_admin", "set_group_admin",
               Member(f).user_id, "true")
    ELSE AfterRestore(f)

\* lines 770-786
RestoreAdmin(f) ==
    IF restore_admins /\ Member(f).role = "admin"
    THEN Await(f, "await_set_group_admin", "set_group_admin",
               Member(f).user_id, "true")
    ELSE AfterRestore(f)

\* lines 752-768
RestoreTitle(f) ==
    IF restore_titles
    THEN Await(f, "await_set_group_special_title", "set_group_special_title",
               Member(f).user_id, Norm(Member(f).title))
    ELSE RestoreAdmin(f)

\* lines 731-750
_restore_member_info(f, caller) ==
    LET f1 == [f EXCEPT !.restored = <<>>, !.path = caller]
    IN IF restore_cards
       THEN Await(f1, "await_set_group_card", "set_group_card",
                  Member(f).user_id, Norm(Member(f).card))
       ELSE RestoreTitle(f1)

\* the mutant of Process: the group is looked at before the bot's identity
ProcessGroupFirst(f) ==
    LET m == Member(f)
        f1 == [f EXCEPT !.p.current_user = m.user_id,
                        !.late = @ \/ cancel_in_run]
    IN IF m.user_id \in f1.ids
       THEN _restore_member_info(f1, "present")
       ELSE IF m.user_id = f1.bot
       THEN LoopTop([Record(f1, SKIPPED, "bot_self") EXCEPT !.idx = @ + 1])
       ELSE Await(f1, "await_get_friend_list", "get_friend_list", m.user_id, "")

\* lines 573-617: one member, from its dequeue to the first await
Process(f) ==
    LET m == Member(f)
        f1 == [f EXCEPT !.p.current_user = m.user_id,
                        !.late = @ \/ cancel_in_run]
    IN IF m.user_id = f1.bot
       THEN LoopTop([Record(f1, SKIPPED, "bot_self") EXCEPT !.idx = @ + 1])
       ELSE IF m.user_id \in f1.ids
       THEN _restore_member_info(f1, "present")
       ELSE Await(f1, "await_get_friend_list", "get_friend_list", m.user_id, "")

\* lines 562-572: the head of the for loop
LoopTop(f) ==
    IF f.idx > Len(f.all) THEN Finish(f)
    ELSE IF _cancelled THEN Finish([f EXCEPT !.p.status = CANCELLED])
    ELSE IF _paused THEN [f EXCEPT !.pc = "await_pause_sleep"]
    ELSE Process(f)

\* the mutant of EnterLoop: the list is processed as it was given
EnterLoopAsGiven(f) == LoopTop([f EXCEPT !.all = members, !.idx = 1])

\* the mutant of EnterLoop: the rows of role owner are processed last
EnterLoopWithOwners(f) ==
    LET admins == SelectSeq(members, LAMBDA m : m.role = "admin")
        owners == SelectSeq(members, LAMBDA m : m.role = "owner")
        regular_members == SelectSeq(members, LAMBDA m : m.role = "member")
    IN LoopTop([f EXCEPT !.all = regular_members \o admins \o owners, !.idx = 1])

\* lines 554-560
EnterLoop(f) ==
    LET admins == SelectSeq(members, LAMBDA m : m.role = "admin")
        regular_members == SelectSeq(members, LAMBDA m : m.role = "member")
    IN LoopTop([f EXCEPT !.all = regular_members \o admins, !.idx = 1])

-----------------------------------------------------------------------------
(* Actions of _rebuild_group *)

ctl == <<_cancelled, _paused, cancel_in_run, cancel_midrun>>

\* lines 520-531: the new job record, the flags, the roster fetch
Begin ==
    /\ _progress' = RebuildProgress(Len(members))
    /\ _cancelled' = FALSE
    /\ _paused' = FALSE
    /\ pc' = "await_get_group_member_list"
    /\ trace' = Append(trace, Event("run", "get_group_member_list", NoUser, ""))
    /\ cancel_in_run' = FALSE
    /\ cancel_midrun' = FALSE
    /\ report' = NoProgress
    /\ UNCHANGED <<all_members, idx, current_user_ids, bot_user_id,
                   restored, path, callbacks, begun_after_cancel, dry>>

\* _rebuild_group is called, lines 520-531
Start ==
    /\ pc = "idle"
    /\ Begin
    /\ UNCHANGED <<snapshots, other, inputs>>

\* the mutant of MemberListReturns: a failed fetch ends the run as Failed
MemberListReturnsAborting ==
    /\ pc = "await_get_group_member_list"
    /\ \E ok \in BOOLEAN :
         Install(IF ok
                 THEN Await([Frame EXCEPT !.ids = DOMAIN roster],
                            "await_get_login_info", "get_login_info", NoUser, "")
                 ELSE Finish([Frame EXCEPT !.p.status = FAILED]))
    /\ UNCHANGED <<snapshots, other, inputs, ctl, dry>>

\* lines 531-539
MemberListReturns ==
    /\ pc = "await_get_group_member_list"
    /\ \E ok \in BOOLEAN :
         Install(Await([Frame EXCEPT !.ids = IF ok THEN DOMAIN roster ELSE {}],
                       "await_get_login_info", "get_login_info", NoUser, ""))
    /\ UNCHANGED <<snapshots, other, inputs, ctl, dry>>

\* lines 539-560
LoginInfoReturns ==
    /\ pc = "await_get_login_info"
    /\ \E r \in Users \cup {NoUser} :
         LET f == [Frame EXCEPT !.bot = r]
         IN Install(IF send_welcome
                    THEN Await(f, "await_start_msg", "send_group_msg", NoUser, "start")
                    ELSE EnterLoop(f))
    /\ UNCHANGED <<snapshots, other, inputs, ctl, dry>>

\* lines 547-560
StartMsgReturns ==
    /\ pc = "await_start_msg"
    /\ \E ok \in BOOLEAN :
         Install(EnterLoop(Frame))
    /\ UNCHANGED <<snapshots, other, inputs, ctl, dry>>

\* the mutant of PauseSleepReturns: the wait ends after one sleep
PauseSleepReturnsOnce ==
    /\ pc = "await_pause_sleep"
    /\ Install(Process(Frame))
    /\ UNCHANGED <<snapshots, other, inputs, ctl, dry>>

\* the mutant of PauseSleepReturns: resume() does not end the wait
PauseSleepReturnsStuck ==
    /\ pc = "await_pause_sleep"
    /\ Install(IF _cancelled THEN Process(Frame) ELSE Frame)
    /\ UNCHANGED <<snapshots, other, inputs, ctl, dry>>

\* lines 568-573
PauseSleepReturns ==
    /\ pc = "await_pause_sleep"
    /\ Install(IF _cancelled THEN Process(Frame)
               ELSE IF _paused THEN Frame
               ELSE Process(Frame))
    /\ UNCHANGED <<snapshots, other, inputs, ctl, dry>>

\* the mutant of InviteFailed: the run goes on whatever continue_on_error is
InviteFailedGoesOn(f) == Throttle(f)

\* lines 628-642: the member's outcome is FAILED and has been recorded
InviteFailed(f) ==
    IF ~continue_on_error
    THEN Finish([f EXCEPT !.p.status = FAILED,
                          !.p.error_message = f.p.results[Len(f.p.results)].message])
    ELSE Throttle(f)

\* the mutant of FriendListReturns: a friend is marked and left as it is
FriendListReturnsNoRestore ==
    /\ pc = "await_get_friend_list"
    /\ \E r \in {"error", "not_friend", "friend"} :
         LET m == Member(Frame)
             f == Frame
         IN Install(
              IF r = "friend"
              THEN Throttle([Record(f, SUCCESS, "marked")
                               EXCEPT !.ids = @ \cup {m.user_id}])
              ELSE IF r = "error"
              THEN InviteFailed(Record(f, FAILED, "error"))
              ELSE Throttle(Record(f, SKIPPED, "not_friend")))
    /\ UNCHANGED <<snapshots, other, inputs, ctl, dry>>

\* lines 617-642 with _invite_member, lines 684-718
FriendListReturns ==
    /\ pc = "await_get_friend_list"
    /\ \E r \in {"error", "not_friend", "friend"} :
         LET m == Member(Frame)
             f == Frame
         IN Install(
              IF r = "friend"
              THEN _restore_member_info(
                     [Record(f, SUCCESS, "marked")
                        EXCEPT !.ids = @ \cup {m.user_id}], "invited")
              ELSE IF r = "error"
              THEN InviteFailed(Record(f, FAILED, "error"))
              ELSE Throttle(Record(f, SKIPPED, "not_friend")))
    /\ UNCHANGED <<snapshots, other, inputs, ctl, dry>>

\* the mutant of SetCardReturns: a card that cannot be set ends the restore
SetCardReturnsAborting ==
    /\ pc = "await_set_group_card"
    /\ \E ok \in BOOLEAN :
         LET m == Member(Frame)
             backup_card == Norm(m.card)
             f == Frame
         IN Install(
              IF ok
              THEN RestoreTitle([f EXCEPT !.restored =
                      Append(@, IF backup_card # "" THEN "card" ELSE "clear_card")])
              ELSE AfterRestore(f))
    /\ UNCHANGED <<snapshots, other, inputs, ctl, dry>>

\* lines 736-753
SetCardReturns ==
    /\ pc = "await_set_group_card"
    /\ \E ok \in BOOLEAN :
         LET m == Member(Frame)
             backup_card == Norm(m.card)
             f == Frame
         IN Install(RestoreTitle(
              IF ok
              THEN [f EXCEPT !.restored =
                      Append(@, IF backup_card # "" THEN "card" ELSE "clear_card")]
              ELSE f))
    /\ UNCHANGED <<snapshots, other, inputs, ctl, dry>>

\* lines 754-771
SetTitleReturns ==
    /\ pc = "await_set_group_special_title"
    /\ \E ok \in BOOLEAN :
         LET m == Member(Frame)
             backup_title == Norm(m.title)
             f == Frame
         IN Install(RestoreAdmin(
              IF ok
              THEN [f EXCEPT !.restored =
                      Append(@, IF backup_title # "" THEN "title" ELSE "clear_title")]
              ELSE f))
    /\ UNCHANGED <<snapshots, other, inputs, ctl, dry>>

\* lines 772-786
SetAdminReturns ==
    /\ pc = "await_set_group_admin"
    /\ \E ok \in BOOLEAN :
         LET m == Member(Frame)
             f == Frame
         IN Install(AfterRestore(
              IF ok THEN [f EXCEPT !.restored = Append(@, "admin")] ELSE f))
    /\ UNCHANGED <<snapshots, other, inputs, ctl, dry>>

\* line 642, then the next iteration
SleepReturns ==
    /\ pc = "await_sleep"
    /\ Install(LoopTop([Frame EXCEPT !.idx = @ + 1]))
    /\ UNCHANGED <<snapshots, other, inputs, ctl, dry>>

\* lines 654-670
EndMsgReturns ==
    /\ pc = "await_end_msg"
    /\ \E ok \in BOOLEAN :
         Install([Frame EXCEPT !.pc = "returned"])
    /\ UNCHANGED <<snapshots, other, inputs, ctl, dry>>

-----------------------------------------------------------------------------
(* The controls, called by other tasks while the coroutine is suspended *)

frame == <<pc, all_members, idx, current_user_ids, bot_user_id, restored,
           path, trace, callbacks, begun_after_cancel, report>>

InRun == pc \notin {"idle", "returned", "raised"}

\* a member of the run has not been dequeued yet
MembersLeft ==
    IF pc \in {"await_get_group_member_list", "await_get_login_info", "await_start_msg"}
    THEN \E i \in DOMAIN members : members[i].role \in {"member", "admin"}
    ELSE IF pc = "await_pause_sleep" THEN TRUE
    ELSE IF pc \in {"idle", "await_end_msg", "returned"} THEN FALSE
    ELSE idx < Len(all_members)

\* lines 145-150
cancel ==
    /\ _cancelled' = TRUE
    /\ _progress' = IF _progress # NoProgress
                    THEN [_progress EXCEPT !.status = CANCELLED] ELSE _progress
    /\ cancel_in_run' = (cancel_in_run \/ InRun)
    /\ cancel_midrun' = (cancel_midrun \/ MembersLeft)
    /\ UNCHANGED <<snapshots, other, inputs, frame, _paused, dry>>

\* lines 152-157
pause ==
    /\ _paused' = TRUE
    /\ _progress' = IF _progress # NoProgress
                    THEN [_progress EXCEPT !.status = PAUSED] ELSE _progress
    /\ UNCHANGED <<snapshots, other, inputs, frame, _cancelled, cancel_in_run, cancel_midrun, dry>>

\* lines 159-164
resume ==
    /\ _paused' = FALSE
    /\ _progress' = IF _progress # NoProgress
                    THEN [_progress EXCEPT !.status = RUNNING] ELSE _progress
    /\ UNCHANGED <<snapshots, other, inputs, frame, _cancelled, cancel_in_run, cancel_midrun, dry>>

-----------------------------------------------------------------------------
(* Two calls of _rebuild_group on one engine.  The event loop runs one       *)
(* coroutine at a time: pc, all_members, ... are the locals of the coroutine *)
(* whose await returns next, other holds those of the coroutine that waits.  *)

Locals ==
    [pc |-> pc, all |-> all_members, idx |-> idx, ids |-> current_user_ids,
     bot |-> bot_user_id, restored |-> restored, path |-> path]

\* no second call has been made
NoOther ==
    [pc |-> "idle", all |-> <<>>, idx |-> 0, ids |-> {}, bot |-> NoUser,
     restored |-> <<>>, path |-> ""]

Resume(l) ==
    /\ pc' = l.pc
    /\ all_members' = l.all
    /\ idx' = l.idx
    /\ current_user_ids' = l.ids
    /\ bot_user_id' = l.bot
    /\ restored' = l.restored
    /\ path' = l.path

\* lines 520-531, called while a first call is suspended in an await
SecondCall ==
    /\ InRun
    /\ other.pc = "idle"
    /\ other' = Locals
    /\ _progress' = RebuildProgress(Len(members))
    /\ _cancelled' = FALSE
    /\ _paused' = FALSE
    /\ Resume([NoOther EXCEPT !.pc = "await_get_group_member_list"])
    /\ trace' = Append(trace, Event("run", "get_group_member_list", NoUser, ""))
    /\ UNCHANGED <<snapshots, inputs, dry, callbacks, report, cancel_in_run,
                   cancel_midrun, begun_after_cancel>>

\* the await that returns next is one of the other coroutine
Switch ==
    /\ other.pc \notin {"idle", "returned"}
    /\ other' = Locals
    /\ Resume(other)
    /\ UNCHANGED <<snapshots, inputs, dry, _progress, _cancelled, _paused, trace,
                   callbacks, report, cancel_in_run, cancel_midrun,
                   begun_after_cancel>>

-----------------------------------------------------------------------------
(* The preview: rebuild_group with dry_run=True, and _dry_run_rebuild *)

engine == <<_progress, _cancelled, _paused, pc, all_members, idx,
            current_user_ids, bot_user_id, restored, path, callbacks, report,
            cancel_in_run, cancel_midrun, begun_after_cancel>>

\* the user ids of a preview
DryUsers == 1..(MaxMembers + 1)

\* lines 340-350
NoStats ==
    [total_backup_members |-> 0, current_members |-> 0, will_skip_bot |-> 0,
     will_skip_already_in |-> 0, will_skip_not_friend |-> 0,
     will_restore_card |-> 0, will_restore_title |-> 0,
     will_restore_admin |-> 0, cannot_invite |-> 0]

\* lines 374-377
CardChange(member, current_member) ==
    restore_cards /\ Norm(current_member.card) # Norm(member.card)

\* lines 387-390
TitleChange(member, current_member) ==
    restore_titles /\ Norm(current_member.title) # Norm(member.title)

\* the mutant of AdminChange: any difference in being an admin counts
AdminChangeEitherWay(member, current_member) ==
    /\ restore_admins
    /\ (member.role = "admin") # (current_member.role = "admin")

\* lines 400-402
AdminChange(member, current_member) ==
    /\ restore_admins
    /\ member.role = "admin"
    /\ current_member.role # "admin"
    /\ current_member.role # "owner"

\* lines 371-409: member_changes, by type
member_changes(member, current_member) ==
    (IF CardChange(member, current_member) THEN <<"card">> ELSE <<>>)
    \o (IF TitleChange(member, current_member) THEN <<"title">> ELSE <<>>)
    \o (IF AdminChange(member, current_member) THEN <<"admin">> ELSE <<>>)

Change(member, action, reason, details) ==
    [user_id |-> member.user_id, action |-> action, reason |-> reason,
     details |-> details]

Bump(st, key) == [st EXCEPT ![key] = @ + 1]

BumpIf(st, key, cond) == IF cond THEN Bump(st, key) ELSE st

\* the mutant of DryMember: the group is looked at before the bot's identity
DryMemberGroupFirst(member, acc, current_map, bot, friends) ==
    IF member.user_id \in DOMAIN current_map
    THEN LET details == member_changes(member, current_map[member.user_id])
         IN [changes |-> Append(acc.changes,
                 IF details # <<>>
                 THEN Change(member, "restore", "in_group_restore", details)
                 ELSE Change(member, "skip", "in_group_no_change", <<>>)),
             stats |-> acc.stats]
    ELSE IF member.user_id = bot
    THEN [changes |-> Append(acc.changes, Change(member, "skip", "bot_self", <<>>)),
          stats |-> acc.stats]
    ELSE IF member.user_id \notin friends
    THEN [changes |-> Append(acc.changes,
                             Change(member, "cannot_invite", "not_friend", <<>>)),
          stats |-> acc.stats]
    ELSE [changes |-> Append(acc.changes,
                             Change(member, "need_invite", "friend_no_invite_api", <<>>)),
          stats |-> acc.stats]

\* lines 353-447: one pass of the for loop over backup_members
DryMember(member, acc, current_map, bot, friends) ==
    IF member.user_id = bot
    THEN [changes |-> Append(acc.changes, Change(member, "skip", "bot_self", <<>>)),
          stats |-> Bump(acc.stats, "will_skip_bot")]
    ELSE IF member.user_id \in DOMAIN current_map
    THEN LET current_member == current_map[member.user_id]
             details == member_changes(member, current_member)
             st == BumpIf(BumpIf(BumpIf(
                       Bump(acc.stats, "will_skip_already_in"),
                       "will_restore_card", CardChange(member, current_member)),
                       "will_restore_title", TitleChange(member, current_member)),
                       "will_restore_admin", AdminChange(member, current_member))
         IN [changes |-> Append(acc.changes,
                 IF details # <<>>
                 THEN Change(member, "restore", "in_group_restore", details)
                 ELSE Change(member, "skip", "in_group_no_change", <<>>)),
             stats |-> st]
    ELSE IF member.user_id \notin friends
    THEN [changes |-> Append(acc.changes,
                             Change(member, "cannot_invite", "not_friend", <<>>)),
          stats |-> Bump(Bump(acc.stats, "will_skip_not_friend"), "cannot_invite")]
    ELSE [changes |-> Append(acc.changes,
                             Change(member, "need_invite", "friend_no_invite_api", <<>>)),
          stats |-> Bump(acc.stats, "cannot_invite")]

RECURSIVE DryLoop(_, _, _, _, _)

\* lines 352-447: the for loop over backup_members, from row i on
DryLoop(i, acc, current_map, bot, friends) ==
    IF i > Len(members) THEN acc
    ELSE DryLoop(i + 1, DryMember(members[i], acc, current_map, bot, friends),
                 current_map, bot, friends)

\* lines 246-258: the snapshot is missing, is of another group, or is found
Lookups == {"missing", "other_group", "found"}

\* rebuild_group, lines 236-274, into _dry_run_rebuild, lines 313-318
DryStart ==
    /\ dry_pc = "idle"
    /\ \E c \in BOOLEAN, t \in BOOLEAN, a \in BOOLEAN :
         /\ restore_cards' = c
         /\ restore_titles' = t
         /\ restore_admins' = a
    /\ \E backup \in Lookups :
         IF backup # "found" \/ members = <<>>
         THEN /\ dry_pc' = "raised"
              /\ trace' = trace
         ELSE /\ dry_pc' = "await_get_group_member_list"
              /\ trace' = Append(trace, Event("dry", "get_group_member_list", NoUser, ""))
    /\ UNCHANGED <<snapshots, other, members, roster, send_welcome, continue_on_error, has_callback,
                   engine, dry_current_map, dry_bot_user_id, dry_friend_ids,
                   changes, stats>>

\* lines 318-327
DryMemberListReturns ==
    /\ dry_pc = "await_get_group_member_list"
    /\ \E ok \in BOOLEAN :
         IF ok
         THEN /\ dry_current_map' = roster
              /\ dry_pc' = "await_get_login_info"
              /\ trace' = Append(trace, Event("dry", "get_login_info", NoUser, ""))
         ELSE /\ dry_current_map' = dry_current_map
              /\ dry_pc' = "raised_no_roster"
              /\ trace' = trace
    /\ UNCHANGED <<snapshots, other, inputs, engine, dry_bot_user_id, dry_friend_ids, changes, stats>>

\* lines 327-334
DryLoginInfoReturns ==
    /\ dry_pc = "await_get_login_info"
    /\ \E r \in DryUsers \cup {NoUser} : dry_bot_user_id' = r
    /\ dry_pc' = "await_get_friend_list"
    /\ trace' = Append(trace, Event("dry", "get_friend_list", NoUser, ""))
    /\ UNCHANGED <<snapshots, other, inputs, engine, dry_current_map, dry_friend_ids, changes, stats>>

\* lines 339-447: the statistics and the loop over backup_members
DryResult(friends) ==
    LET start == [changes |-> <<>>,
                  stats |-> [NoStats EXCEPT
                               !.total_backup_members = Len(members),
                               !.current_members = Cardinality(DOMAIN dry_current_map)]]
    IN DryLoop(1, start, dry_current_map, dry_bot_user_id, friends)

\* the card of every "restore" entry is set
CardCalls(chg) ==
    LET restore == SelectSeq(chg, LAMBDA c : c.action = "restore")
    IN [i \in DOMAIN restore |->
          Event("dry", "set_group_card", restore[i].user_id, "")]

\* the mutant of DryFriendListReturns: the preview applies what it found
DryFriendListReturnsApplying ==
    /\ dry_pc = "await_get_friend_list"
    /\ \E r \in SUBSET DryUsers :
         /\ dry_friend_ids' = r
         /\ changes' = DryResult(r).changes
         /\ stats' = DryResult(r).stats
         /\ trace' = trace \o CardCalls(DryResult(r).changes)
    /\ dry_pc' = "returned"
    /\ UNCHANGED <<snapshots, other, inputs, engine, dry_current_map, dry_bot_user_id>>

\* lines 334-464: the friend list (empty if the call failed), then the
\* preview is computed and returned without a further await
DryFriendListReturns ==
    /\ dry_pc = "await_get_friend_list"
    /\ \E r \in SUBSET DryUsers :
         /\ dry_friend_ids' = r
         /\ changes' = DryResult(r).changes
         /\ stats' = DryResult(r).stats
    /\ dry_pc' = "returned"
    /\ UNCHANGED <<snapshots, other, inputs, engine, dry_current_map, dry_bot_user_id, trace>>

-----------------------------------------------------------------------------
(* One call of rebuild_group, as POST /api/rebuild makes it *)

\* rebuild_group with dry_run=True, lines 236-274
RebuildGroupDryRun ==
    /\ pc = "idle"
    /\ DryStart

\* rebuild_group with dry_run=False, lines 236-277, into _rebuild_group,
\* lines 520-531
RebuildGroupExecute ==
    /\ pc = "idle"
    /\ dry_pc = "idle"
    /\ \E c \in BOOLEAN, t \in BOOLEAN, a \in BOOLEAN :
         /\ restore_cards' = c
         /\ restore_titles' = t
         /\ restore_admins' = a
    /\ \E backup \in Lookups :
         IF backup # "found" \/ members = <<>>
         THEN /\ pc' = "raised"
              /\ UNCHANGED <<_progress, _cancelled, _paused, trace, cancel_in_run,
                             cancel_midrun, report, all_members, idx,
                             current_user_ids, bot_user_id, restored, path,
                             callbacks, begun_after_cancel, dry>>
         ELSE Begin
    /\ UNCHANGED <<snapshots, other, members, roster, send_welcome, continue_on_error, has_callback>>

-----------------------------------------------------------------------------
(* Inputs *)

Cards == {NULL, "", "A"}

Titles == {NULL, "", "T"}

SeqsUpTo(S, n) == UNION {[1..k -> S] : k \in 0..n}

\* the rows of a snapshot: member i of the list has user_id i
MemberRows(n, roles, cards, titles) ==
    {ms \in SeqsUpTo([user_id : 1..n, role : roles, card : cards, title : titles], n) :
        \A i \in DOMAIN ms : ms[i].user_id = i}

\* the live group: some of the users, each with its live row
Rosters(U, cards, titles, roles) ==
    UNION {[S -> [card : cards, title : titles, role : roles]] : S \in SUBSET U}

-----------------------------------------------------------------------------
(* Snapshots: BackupManager.backup_group and compare_backups                 *)
(* (src/src/core/backup_manager.py).  One group; the id of a snapshot is its *)
(* position in db.backups.                                                   *)

rebuild == <<inputs, engine, dry, trace, other>>

\* the user ids of the snapshots
GroupUsers == 1..(MaxMembers + 1)

\* Backup(status=RUNNING, ...), lines 121-129
NewBackup ==
    [status |-> RUNNING, error_message |-> NULL, member_count |-> 0,
     new_members |-> 0, left_members |-> 0, joined |-> {}, left |-> {}]

\* a snapshot that succeeded, lines 199-212: the member table held old, the
\* fetched list was new
DoneBackup(old, new) ==
    [NewBackup EXCEPT !.status = SUCCESS,
                      !.member_count = Cardinality(new),
                      !.new_members = Cardinality(new \ old),
                      !.left_members = Cardinality(old \ new),
                      !.joined = new \ old,
                      !.left = old \ new]

\* the group that is snapshotted; the Member table holds other groups too
Group == "G"

\* members is the Member table of Group, user_id -> row, and others the rows
\* of the other groups
EmptyDb ==
    [backups |-> <<>>, history |-> {}, members |-> <<>>, others |-> {},
     backup_members |-> {}]

\* backup_group is not running; table0 is history: the member table as
\* committed when the run began
NoBackupRun ==
    [pc |-> "idle", id |-> 0, members_data |-> <<>>, table0 |-> <<>>,
     joined_ids |-> {}, left_ids |-> {}]

\* no second backup_group has been called
NoWaiting == [run |-> NoBackupRun, session |-> EmptyDb]

NoComparison ==
    [pc |-> "idle", backup_id_1 |-> 0, backup_id_2 |-> 0, members_1 |-> {},
     members_2 |-> {}, result |-> NULL]

\* MemberHistory(user_id, action, backup_id), lines 154-160 and 165-171
MemberHistory(ids, action, id) ==
    {[user_id |-> u, action |-> action, backup_id |-> id] : u \in ids}

\* BackupMember(backup_id, user_id, card=member_data.get("card", "")),
\* lines 178-191
BackupMembers(id, data) ==
    {[backup_id |-> id, user_id |-> u, card |-> data[u].card] : u \in DOMAIN data}

\* lines 234-242: the handler of backup_group; what the session holds is
\* committed with the failed record, then the exception is raised again
BackupFailed(message) ==
    LET s == [session EXCEPT !.backups[backup_run.id].status = FAILED,
                             !.backups[backup_run.id].error_message = message]
    IN /\ db' = s
       /\ session' = s
       /\ backup_run' = [backup_run EXCEPT !.pc = "raised"]

\* lines 119-136
backup_group ==
    /\ backup_run.pc = "idle"
    /\ LET s == [db EXCEPT !.backups = Append(@, NewBackup)]
       IN /\ db' = s
          /\ session' = s
    /\ backup_run' = [NoBackupRun EXCEPT !.pc = "await_sync_group_info",
                                         !.id = Len(db.backups) + 1,
                                         !.table0 = db.members]
    /\ UNCHANGED <<rebuild, waiting, pruning, comparison>>

\* lines 136-139
SyncGroupInfoReturns ==
    /\ backup_run.pc = "await_sync_group_info"
    /\ \E ok \in BOOLEAN :
         IF ok
         THEN /\ backup_run' = [backup_run EXCEPT !.pc = "await_get_group_member_list"]
              /\ UNCHANGED <<db, session>>
         ELSE BackupFailed("sync_group_info")
    /\ UNCHANGED <<rebuild, waiting, pruning, comparison>>

\* lines 139-143
BackupMemberListReturns ==
    /\ backup_run.pc = "await_get_group_member_list"
    /\ \E ok \in BOOLEAN, r \in Rosters(GroupUsers, {NULL, "A"}, {""}, {"member"}) :
         IF ok
         THEN /\ backup_run' = [backup_run EXCEPT !.pc = "await_get_current_members",
                                                  !.members_data = r]
              /\ UNCHANGED <<db, session>>
         ELSE BackupFailed("get_group_member_list")
    /\ UNCHANGED <<rebuild, waiting, pruning, comparison>>

\* the mutant of CurrentMembersReturns: only the joins are recorded
CurrentMembersReturnsJoinsOnly ==
    /\ backup_run.pc = "await_get_current_members"
    /\ \E ok \in BOOLEAN :
         IF ok
         THEN LET old_user_ids == DOMAIN session.members
                  new_user_ids == DOMAIN backup_run.members_data
                  joined_ids == new_user_ids \ old_user_ids
                  left_ids == old_user_ids \ new_user_ids
              IN /\ session' = [session EXCEPT !.history =
                        @ \cup MemberHistory(joined_ids, "join", backup_run.id)]
                 /\ backup_run' = [backup_run EXCEPT !.pc = "await_update_members",
                                                     !.joined_ids = joined_ids,
                                                     !.left_ids = left_ids]
                 /\ db' = db
         ELSE BackupFailed("get_current_members")
    /\ UNCHANGED <<rebuild, waiting, pruning, comparison>>

\* lines 143-175 with _get_current_members, lines 250-254
CurrentMembersReturns ==
    /\ backup_run.pc = "await_get_current_members"
    /\ \E ok \in BOOLEAN :
         IF ok
         THEN LET old_user_ids == DOMAIN session.members
                  new_user_ids == DOMAIN backup_run.members_data
                  joined_ids == new_user_ids \ old_user_ids
                  left_ids == old_user_ids \ new_user_ids
              IN /\ session' = [session EXCEPT !.history =
                        @ \cup MemberHistory(joined_ids, "join", backup_run.id)
                          \cup MemberHistory(left_ids, "leave", backup_run.id)]
                 /\ backup_run' = [backup_run EXCEPT !.pc = "await_update_members",
                                                     !.joined_ids = joined_ids,
                                                     !.left_ids = left_ids]
                 /\ db' = db
         ELSE BackupFailed("get_current_members")
    /\ UNCHANGED <<rebuild, waiting, pruning, comparison>>

\* Member.from_onebot_data(group_id, data), models/member.py lines 107-124
MemberRowsOf(group_id, data) ==
    {[group_id |-> group_id, user_id |-> u, card |-> data[u].card] : u \in DOMAIN data}

\* the Member table as one set of rows
MemberTable(s) == MemberRowsOf(Group, s.members) \cup s.others

\* the Member table s is given
WithMemberTable(s, table) ==
    LET mine == {r \in table : r.group_id = Group}
    IN [s EXCEPT !.members = [u \in {r.user_id : r \in mine} |->
                                 [card |-> (CHOOSE r \in mine : r.user_id = u).card]],
                 !.others = table \ mine]

\* the mutant of _update_members: the rows of the users that left are kept
UpdateMembersMerging(s, group_id, members_data) ==
    LET kept == {r \in MemberTable(s) :
                    r.group_id # group_id \/ r.user_id \notin DOMAIN members_data}
    IN WithMemberTable(s, kept \cup MemberRowsOf(group_id, members_data))

\* _update_members, lines 264-271: delete(Member).where(Member.group_id ==
\* group_id), then a row is added per fetched member
_update_members(s, group_id, members_data) ==
    LET kept == {r \in MemberTable(s) : r.group_id # group_id}
    IN WithMemberTable(s, kept \cup MemberRowsOf(group_id, members_data))

\* lines 175-196 with _update_members, lines 264-271: the delete raises, or
\* the table is replaced and the rows of the snapshot are added
UpdateMembersReturns ==
    /\ backup_run.pc = "await_update_members"
    /\ \E ok \in BOOLEAN :
         IF ok
         THEN /\ session' = [_update_members(session, Group, backup_run.members_data)
                    EXCEPT !.backup_members =
                        @ \cup BackupMembers(backup_run.id, backup_run.members_data)]
              /\ backup_run' = [backup_run EXCEPT !.pc = "await_save_backup_file"]
              /\ db' = db
         ELSE BackupFailed("update_members")
    /\ UNCHANGED <<rebuild, waiting, pruning, comparison>>

\* lines 194-232 with _save_backup_file, lines 286-316
SaveBackupFileReturns ==
    /\ backup_run.pc = "await_save_backup_file"
    /\ \E ok \in BOOLEAN :
         IF ok
         THEN LET s == [session EXCEPT !.backups[backup_run.id] =
                          [@ EXCEPT !.status = SUCCESS,
                                    !.member_count = Cardinality(DOMAIN backup_run.members_data),
                                    !.new_members = Cardinality(backup_run.joined_ids),
                                    !.left_members = Cardinality(backup_run.left_ids),
                                    !.joined = backup_run.joined_ids,
                                    !.left = backup_run.left_ids]]
              IN /\ db' = s
                 /\ session' = s
                 /\ backup_run' = [backup_run EXCEPT !.pc = "returned"]
         ELSE BackupFailed("save_backup_file")
    /\ UNCHANGED <<rebuild, waiting, pruning, comparison>>

\* lines 119-136, called while a first backup_group is suspended in an await
\* and holds no uncommitted write: the Backup record is committed in a
\* session of its own (database.py lines 132-146)
SecondBackup ==
    /\ backup_run.pc \notin {"idle", "returned", "raised", "await_save_backup_file"}
    /\ waiting = NoWaiting
    /\ waiting' = [run |-> backup_run, session |-> session]
    /\ LET s == [db EXCEPT !.backups = Append(@, NewBackup)]
       IN /\ db' = s
          /\ session' = s
    /\ backup_run' = [NoBackupRun EXCEPT !.pc = "await_sync_group_info",
                                         !.id = Len(db.backups) + 1,
                                         !.table0 = db.members]
    /\ UNCHANGED <<rebuild, pruning, comparison>>

\* the session s of run sees what is committed now and the MemberHistory
\* rows run has added and not flushed yet (lines 154-172)
Refreshed(s, run) ==
    [db EXCEPT !.history = @ \cup {h \in s.history : h.backup_id = run.id}]

\* the event loop goes on with the other backup_group; a run that has
\* flushed its writes (line 176) keeps the database locked until it commits
SwitchBackup ==
    /\ waiting.run.pc \notin {"idle", "returned", "raised"}
    /\ backup_run.pc # "await_save_backup_file"
    /\ waiting' = [run |-> backup_run, session |-> session]
    /\ backup_run' = waiting.run
    /\ session' = Refreshed(waiting.session, waiting.run)
    /\ db' = db
    /\ UNCHANGED <<rebuild, pruning, comparison>>

\* sets of rows: the order of the rows plays no part below
UsersOf(rows) == [u \in {m.user_id : m \in rows} |-> CHOOSE m \in rows : m.user_id = u]

\* the mutant of Compare: joined and left are exchanged
CompareSwapped(members_1, members_2) ==
    LET users_1 == UsersOf(members_1)
        users_2 == UsersOf(members_2)
        ids_1 == DOMAIN users_1
        ids_2 == DOMAIN users_2
        joined == ids_1 \ ids_2
        left == ids_2 \ ids_1
        remained == ids_1 \cap ids_2
        card_changed ==
            {[user_id |-> u, old_card |-> users_1[u].card, new_card |-> users_2[u].card] :
                u \in {v \in remained : users_1[v].card # users_2[v].card}}
    IN [joined |-> joined,
        left |-> left,
        remained |-> Cardinality(remained),
        card_changed |-> card_changed]

\* lines 396-422
Compare(members_1, members_2) ==
    LET users_1 == UsersOf(members_1)
        users_2 == UsersOf(members_2)
        ids_1 == DOMAIN users_1
        ids_2 == DOMAIN users_2
        joined == ids_2 \ ids_1
        left == ids_1 \ ids_2
        remained == ids_1 \cap ids_2
        card_changed ==
            {[user_id |-> u, old_card |-> users_1[u].card, new_card |-> users_2[u].card] :
                u \in {v \in remained : users_1[v].card # users_2[v].card}}
    IN [joined |-> joined,
        left |-> left,
        remained |-> Cardinality(remained),
        card_changed |-> card_changed]

\* get_backup_members, lines 343-357
get_backup_members(backup_id) == {m \in db.backup_members : m.backup_id = backup_id}

\* line 393, for an older snapshot backup_id_1 and a newer one backup_id_2
compare_backups ==
    /\ comparison.pc = "idle"
    /\ \E b1 \in DOMAIN db.backups, b2 \in DOMAIN db.backups :
         /\ b1 < b2
         /\ comparison' = [NoComparison EXCEPT !.pc = "await_members_1",
                                            !.backup_id_1 = b1, !.backup_id_2 = b2]
    /\ UNCHANGED <<rebuild, waiting, pruning, db, session, backup_run>>

\* lines 393-394
FirstMembersReturn ==
    /\ comparison.pc = "await_members_1"
    /\ comparison' = [comparison EXCEPT
                        !.pc = "await_members_2",
                        !.members_1 = get_backup_members(comparison.backup_id_1)]
    /\ UNCHANGED <<rebuild, waiting, pruning, db, session, backup_run>>

\* lines 394-422
SecondMembersReturn ==
    /\ comparison.pc = "await_members_2"
    /\ LET members_2 == get_backup_members(comparison.backup_id_2)
       IN comparison' = [comparison EXCEPT
                           !.pc = "returned",
                           !.members_2 = members_2,
                           !.result = Compare(comparison.members_1, members_2)]
    /\ UNCHANGED <<rebuild, waiting, pruning, db, session, backup_run>>

-----------------------------------------------------------------------------
(* Pruning: BackupManager.cleanup_old_backups.  Here the Backup table is a  *)
(* set of records with their own ids, and a backup file is named by the id  *)
(* of its record (_save_backup_file, lines 286-287).                        *)

BackupIds == 1..(MaxMembers + 1)

\* the values of Backup.created_at: two records can have the same
Instants == 1..MaxMembers

KeepCounts == 0..(MaxMembers + 1)

\* Backup.file_path is None, or names a file
FilePaths == {NULL, "file"}

\* records: the Backup table; files: the ids whose backup file exists
EmptyArchive == [records |-> {}, files |-> {}]

\* cleanup_old_backups has not been called; records0 and files0 are history:
\* the archive at the first call; returned and raised count the calls that
\* ended
NoPrune ==
    [pc |-> "idle", keep_count |-> 0, backups |-> <<>>, i |-> 0, deleted |-> {},
     records0 |-> {}, files0 |-> {}, returned |-> 0, raised |-> 0]

\* the mutant of NewestFirst: the records are ordered oldest first
OldestFirst(records, group_id) ==
    LET mine == {r \in records : r.group_id = group_id}
    IN {q \in [1..Cardinality(mine) -> mine] :
          /\ \A i, j \in DOMAIN q : i < j => q[i] # q[j]
          /\ \A i, j \in DOMAIN q : i < j => q[i].created_at <= q[j].created_at}

\* select(Backup).where(Backup.group_id == group_id)
\*   .order_by(Backup.created_at.desc()), lines 434-439: the order of records
\* with the same created_at is not determined
NewestFirst(records, group_id) ==
    LET mine == {r \in records : r.group_id = group_id}
    IN {q \in [1..Cardinality(mine) -> mine] :
          /\ \A i, j \in DOMAIN q : i < j => q[i] # q[j]
          /\ \A i, j \in DOMAIN q : i < j => q[i].created_at >= q[j].created_at}

\* lines 447-451: the file of a record is removed if it has one that exists
Unlink(files, backup) ==
    IF backup.file_path # NULL /\ backup.id \in files
    THEN files \ {backup.id} ELSE files

\* the exception leaves the session: rollback, database.py lines 142-144
PruneRaised ==
    /\ prune' = [prune EXCEPT !.pc = "idle", !.deleted = {}, !.raised = @ + 1]
    /\ archive' = archive

\* line 432, called twice in a row at most
cleanup_old_backups ==
    /\ prune.pc = "idle"
    /\ prune.returned + prune.raised < Cardinality(BOOLEAN)
    /\ prune' = [prune EXCEPT
                   !.pc = "await_select", !.backups = <<>>, !.i = 0, !.deleted = {},
                   !.records0 = IF prune.returned + prune.raised = 0
                                THEN archive.records ELSE @,
                   !.files0 = IF prune.returned + prune.raised = 0
                              THEN archive.files ELSE @]
    /\ UNCHANGED <<rebuild, waiting, db, session, backup_run, comparison, archive>>

\* backups[keep_count:], line 445
Stale(backups, keep_count) == SubSeq(backups, keep_count + 1, Len(backups))

\* lines 434-454: the select returns; nothing to prune, or the file of the
\* first stale record is removed and its record deleted
PruneSelectReturns ==
    /\ prune.pc = "await_select"
    /\ \E ok \in BOOLEAN, backups \in NewestFirst(archive.records, Group) :
         IF ~ok THEN PruneRaised
         ELSE IF Len(backups) <= prune.keep_count
         THEN /\ prune' = [prune EXCEPT !.pc = "idle", !.backups = backups,
                                        !.returned = @ + 1]
              /\ archive' = archive
         ELSE LET stale == Stale(backups, prune.keep_count)
              IN /\ prune' = [prune EXCEPT !.pc = "await_delete", !.backups = stale,
                                           !.i = 1]
                 /\ archive' = [archive EXCEPT !.files = Unlink(@, stale[1])]
    /\ UNCHANGED <<rebuild, waiting, db, session, backup_run, comparison>>

\* lines 445-456: session.delete returns; the next stale record, or the commit
PruneDeleteReturns ==
    /\ prune.pc = "await_delete"
    /\ \E ok \in BOOLEAN :
         IF ~ok THEN PruneRaised
         ELSE LET deleted == prune.deleted \cup {prune.backups[prune.i]}
              IN IF prune.i < Len(prune.backups)
                 THEN /\ prune' = [prune EXCEPT !.i = @ + 1, !.deleted = deleted]
                      /\ archive' = [archive EXCEPT
                                       !.files = Unlink(@, prune.backups[prune.i + 1])]
                 ELSE /\ prune' = [prune EXCEPT !.pc = "await_commit",
                                                !.deleted = deleted]
                      /\ archive' = archive
    /\ UNCHANGED <<rebuild, waiting, db, session, backup_run, comparison>>

\* lines 456-457
PruneCommitReturns ==
    /\ prune.pc = "await_commit"
    /\ \E ok \in BOOLEAN :
         IF ~ok THEN PruneRaised
         ELSE /\ archive' = [archive EXCEPT !.records = @ \ prune.deleted]
              /\ prune' = [prune EXCEPT !.pc = "idle", !.deleted = {},
                                        !.returned = @ + 1]
    /\ UNCHANGED <<rebuild, waiting, db, session, backup_run, comparison>>

\* the Backup tables of two groups: every record has its id, and its file,
\* if it names one, exists or is missing
Archives ==
    {[records |-> {[id |-> id, group_id |-> g[id], created_at |-> c[id],
                    file_path |-> f[id]] : id \in ids},
      files |-> present] :
        ids \in SUBSET BackupIds, g \in [BackupIds -> {Group, "H"}],
        c \in [BackupIds -> Instants], f \in [BackupIds -> FilePaths],
        present \in SUBSET BackupIds}

\* no snapshot has been taken, no second call made
InitNoBackup ==
    /\ other = NoOther
    /\ waiting = NoWaiting
    /\ archive = EmptyArchive
    /\ prune = NoPrune
    /\ db = EmptyDb
    /\ session = EmptyDb
    /\ backup_run = NoBackupRun
    /\ comparison = NoComparison

\* the Member rows of another group
OtherGroup == {[group_id |-> "H", user_id |-> 1, card |-> "A"]}

\* no snapshot has been taken of the group yet, or two have been, of a group
\* without cards, absent cards seen as None by the first and as "" by the
\* second: the member table is that of the second
InitBackup ==
    /\ \/ db = [EmptyDb EXCEPT !.others = OtherGroup]
       \/ \E s1 \in Rosters(GroupUsers, {NULL}, {""}, {"member"}),
             s2 \in Rosters(GroupUsers, {""}, {""}, {"member"}) :
            db = [backups |-> <<DoneBackup({}, DOMAIN s1),
                                DoneBackup(DOMAIN s1, DOMAIN s2)>>,
                  history |-> MemberHistory(DOMAIN s1, "join", 1)
                              \cup MemberHistory(DOMAIN s2 \ DOMAIN s1, "join", 2)
                              \cup MemberHistory(DOMAIN s1 \ DOMAIN s2, "leave", 2),
                  members |-> [u \in DOMAIN s2 |-> [card |-> s2[u].card]],
                  others |-> OtherGroup,
                  backup_members |-> BackupMembers(1, s1) \cup BackupMembers(2, s2)]
    /\ session = db
    /\ backup_run = NoBackupRun
    /\ comparison = NoComparison

\* RebuildManager.__init__, lines 118-136: the engine before any run
InitEngine ==
    /\ _progress = NoProgress
    /\ _cancelled = FALSE
    /\ _paused = FALSE
    /\ pc = "idle"
    /\ all_members = <<>>
    /\ idx = 0
    /\ current_user_ids = {}
    /\ bot_user_id = NoUser
    /\ restored = <<>>
    /\ path = ""
    /\ trace = <<>>
    /\ callbacks = <<>>
    /\ report = NoProgress
    /\ cancel_in_run = FALSE
    /\ cancel_midrun = FALSE
    /\ begun_after_cancel = FALSE
    /\ dry_pc = "idle"
    /\ dry_current_map = <<>>
    /\ dry_bot_user_id = NoUser
    /\ dry_friend_ids = {}
    /\ changes = <<>>
    /\ stats = NoStats

Config(c, t, a, w, e) ==
    [restore_cards |-> c, restore_titles |-> t, restore_admins |-> a,
     send_welcome |-> w, continue_on_error |-> e]

Configured(cfg) ==
    /\ restore_cards = cfg.restore_cards
    /\ restore_titles = cfg.restore_titles
    /\ restore_admins = cfg.restore_admins
    /\ send_welcome = cfg.send_welcome
    /\ continue_on_error = cfg.continue_on_error

\* the configurations of the runs under cancel(), pause() and resume():
\* the defaults of __init__, the defaults of a web request, and the two
\* silent configurations that stop at the first error
Configs ==
    {Config(TRUE, FALSE, TRUE, TRUE, TRUE),
     Config(TRUE, TRUE, FALSE, TRUE, TRUE),
     Config(FALSE, FALSE, FALSE, FALSE, FALSE),
     Config(TRUE, TRUE, TRUE, FALSE, FALSE)}

AllConfigs ==
    {Config(c, t, a, w, e) : c \in BOOLEAN, t \in BOOLEAN, a \in BOOLEAN,
                             w \in BOOLEAN, e \in BOOLEAN}

\* a run under cancel(), pause() and resume(): the rows differ in their roles
Init ==
    /\ members \in MemberRows(MaxMembers, Roles, {"A"}, {""})
    /\ roster \in Rosters(Users, {"A"}, {""}, {"member"})
    /\ \E cfg \in Configs : Configured(cfg)
    /\ has_callback = TRUE
    /\ InitEngine
    /\ InitNoBackup

\* an undisturbed run, under every configuration
InitSeq ==
    /\ members \in MemberRows(MaxMembers, Roles, {"A"}, {""})
    /\ roster \in Rosters(Users, {"A"}, {""}, {"member"})
    /\ \E cfg \in AllConfigs : Configured(cfg)
    /\ has_callback \in BOOLEAN
    /\ InitEngine
    /\ InitNoBackup

\* a preview: one row with every card, title and role against every live
\* row, or several rows that differ in whether and with which card they are
\* in the group
InitDry ==
    /\ \/ /\ members \in MemberRows(1, Roles, Cards, Titles)
          /\ roster \in Rosters({1}, Cards, Titles, Roles)
       \/ /\ members \in MemberRows(MaxMembers + 1, {"member"}, {"A"}, {""})
          /\ roster \in Rosters(DryUsers, {"A", "B"}, {""}, {"member"})
    /\ Configured(Config(TRUE, FALSE, TRUE, TRUE, TRUE))
    /\ has_callback = FALSE
    /\ InitEngine
    /\ InitNoBackup

\* one call of rebuild_group on a new engine: rows that differ in their
\* roles, progress_callback None (line 277)
InitCall ==
    /\ members \in MemberRows(MaxMembers, Roles, {"A"}, {""})
    /\ roster \in Rosters(Users, {"A"}, {""}, {"member"})
    /\ \E w \in BOOLEAN, e \in BOOLEAN : Configured(Config(TRUE, FALSE, TRUE, w, e))
    /\ has_callback = FALSE
    /\ InitEngine
    /\ InitNoBackup

Next ==
    \/ Start
    \/ MemberListReturns
    \/ LoginInfoReturns
    \/ StartMsgReturns
    \/ PauseSleepReturns
    \/ FriendListReturns
    \/ SetCardReturns
    \/ SetTitleReturns
    \/ SetAdminReturns
    \/ SleepReturns
    \/ EndMsgReturns
    \/ cancel
    \/ pause
    \/ resume

Spec == Init /\ [][Next]_vars

NextSeq ==
    \/ Start
    \/ MemberListReturns
    \/ LoginInfoReturns
    \/ StartMsgReturns
    \/ FriendListReturns
    \/ SetCardReturns
    \/ SetTitleReturns
    \/ SetAdminReturns
    \/ SleepReturns
    \/ EndMsgReturns

SeqSpec == InitSeq /\ [][NextSeq]_vars

NextDry ==
    \/ DryStart
    \/ DryMemberListReturns
    \/ DryLoginInfoReturns
    \/ DryFriendListReturns

DrySpec == InitDry /\ [][NextDry]_vars

NextCall ==
    \/ RebuildGroupDryRun
    \/ DryMemberListReturns
    \/ DryLoginInfoReturns
    \/ DryFriendListReturns
    \/ RebuildGroupExecute
    \/ MemberListReturns
    \/ LoginInfoReturns
    \/ StartMsgReturns
    \/ FriendListReturns
    \/ SetCardReturns
    \/ SetTitleReturns
    \/ SetAdminReturns
    \/ SleepReturns
    \/ EndMsgReturns

CallSpec == InitCall /\ [][NextCall]_vars

\* a preview and a run on one engine, as two POST /api/rebuild make them:
\* the preview sets the restore flags it was called with (lines 241-243),
\* the run reads the flags of the engine; no notice is sent
InitPreview ==
    /\ members \in MemberRows(MaxMembers, {"admin", "owner"}, {"A"}, {""})
    /\ Len(members) = MaxMembers
    /\ roster = [u \in {1} |-> [card |-> "A", title |-> "", role |-> "member"]]
    /\ Configured(Config(TRUE, FALSE, FALSE, FALSE, TRUE))
    /\ has_callback = FALSE
    /\ InitEngine
    /\ InitNoBackup

NextPreview ==
    \/ DryStart
    \/ DryMemberListReturns
    \/ DryLoginInfoReturns
    \/ DryFriendListReturns
    \/ Start
    \/ MemberListReturns
    \/ LoginInfoReturns
    \/ FriendListReturns
    \/ SetCardReturns
    \/ SetTitleReturns
    \/ SetAdminReturns
    \/ SleepReturns

PreviewSpec == InitPreview /\ [][NextPreview]_vars

\* a run of admin rows under cancel(), pause() and resume() with every
\* restore flag and the notices on
InitLive ==
    /\ members \in MemberRows(MaxMembers, {"admin"}, {"A"}, {""})
    /\ roster \in Rosters({1}, {"A"}, {""}, {"member"})
    /\ Configured(Config(TRUE, TRUE, TRUE, TRUE, TRUE))
    /\ has_callback = FALSE
    /\ InitEngine
    /\ InitNoBackup

\* every remote call and every asyncio.sleep returns: the event loop resumes
\* a coroutine whose await is done
Returns ==
    /\ WF_vars(MemberListReturns)
    /\ WF_vars(LoginInfoReturns)
    /\ WF_vars(StartMsgReturns)
    /\ WF_vars(PauseSleepReturns)
    /\ WF_vars(FriendListReturns)
    /\ WF_vars(SetCardReturns)
    /\ WF_vars(SetTitleReturns)
    /\ WF_vars(SetAdminReturns)
    /\ WF_vars(SleepReturns)
    /\ WF_vars(EndMsgReturns)

LiveSpec == InitLive /\ [][Next]_vars /\ Returns

\* two calls on one engine: nothing is restored, no notice is sent
InitOverlap ==
    /\ members \in MemberRows(MaxMembers, {"member"}, {"A"}, {""})
    /\ roster = <<>>
    /\ Configured(Config(FALSE, FALSE, FALSE, FALSE, TRUE))
    /\ has_callback = FALSE
    /\ InitEngine
    /\ InitNoBackup

NextOverlap ==
    \/ Start
    \/ SecondCall
    \/ Switch
    \/ MemberListReturns
    \/ LoginInfoReturns
    \/ FriendListReturns
    \/ SleepReturns

OverlapSpec == InitOverlap /\ [][NextOverlap]_vars

\* the records and files of two groups, and a keep_count
InitPrune ==
    /\ members = <<>>
    /\ roster = <<>>
    /\ Configured(Config(TRUE, FALSE, TRUE, TRUE, TRUE))
    /\ has_callback = FALSE
    /\ InitEngine
    /\ other = NoOther
    /\ waiting = NoWaiting
    /\ db = EmptyDb
    /\ session = EmptyDb
    /\ backup_run = NoBackupRun
    /\ comparison = NoComparison
    /\ archive \in {a \in Archives :
                       a.files \subseteq {r.id : r \in {q \in a.records :
                                                           q.file_path # NULL}}}
    /\ \E k \in KeepCounts : prune = [NoPrune EXCEPT !.keep_count = k]

NextPrune ==
    \/ cleanup_old_backups
    \/ PruneSelectReturns
    \/ PruneDeleteReturns
    \/ PruneCommitReturns

PruneSpec == InitPrune /\ [][NextPrune]_vars

\* the snapshots of a group whose engine is idle
InitSnapshots ==
    /\ members = <<>>
    /\ roster = <<>>
    /\ Configured(Config(TRUE, FALSE, TRUE, TRUE, TRUE))
    /\ has_callback = FALSE
    /\ InitEngine
    /\ other = NoOther
    /\ waiting = NoWaiting
    /\ archive = EmptyArchive
    /\ prune = NoPrune
    /\ InitBackup

NextBackup ==
    \/ backup_group
    \/ SyncGroupInfoReturns
    \/ BackupMemberListReturns
    \/ CurrentMembersReturns
    \/ UpdateMembersReturns
    \/ SaveBackupFileReturns
    \/ compare_backups
    \/ FirstMembersReturn
    \/ SecondMembersReturn

BackupSpec == InitSnapshots /\ [][NextBackup]_vars

\* two overlapping POST /api/backup for a group that has one member
InitOverlapBackup ==
    /\ members = <<>>
    /\ roster = <<>>
    /\ Configured(Config(TRUE, FALSE, TRUE, TRUE, TRUE))
    /\ has_callback = FALSE
    /\ InitEngine
    /\ other = NoOther
    /\ archive = EmptyArchive
    /\ prune = NoPrune
    /\ waiting = NoWaiting
    /\ db = [backups |-> <<DoneBackup({}, {1})>>,
             history |-> MemberHistory({1}, "join", 1),
             members |-> [u \in {1} |-> [card |-> "A"]],
             others |-> OtherGroup,
             backup_members |-> BackupMembers(1, [u \in {1} |-> [card |-> "A"]])]
    /\ session = db
    /\ backup_run = NoBackupRun
    /\ comparison = NoComparison

NextOverlapBackup ==
    \/ backup_group
    \/ SecondBackup
    \/ SwitchBackup
    \/ SyncGroupInfoReturns
    \/ BackupMemberListReturns
    \/ CurrentMembersReturns
    \/ UpdateMembersReturns
    \/ SaveBackupFileReturns

OverlapBackupSpec == InitOverlapBackup /\ [][NextOverlapBackup]_vars

-----------------------------------------------------------------------------
(* Claims about the job record and its status *)

Terminal == {COMPLETED, FAILED, CANCELLED}

\* C1: whenever the job can be observed (the coroutine is suspended in an
\* await, a callback runs, the run has returned), processed = success +
\* failed + skipped and processed <= total, under every interleaving of
\* cancel(), pause() and resume()
C1_Counters ==
    _progress # NoProgress =>
        /\ _progress.processed
              = _progress.success + _progress.failed + _progress.skipped
        /\ _progress.processed <= _progress.total
        /\ \A i \in DOMAIN callbacks : callbacks[i] <= _progress.total

\* a second member is being restored after a failed one, and cancel() came
C1_Witness ==
    /\ pc = "await_set_group_card"
    /\ path = "invited"
    /\ _progress.processed = 2
    /\ _progress.failed = 1
    /\ _progress.success = 1
    /\ _cancelled

\* C2: when the run returns, the status of the job is Completed, Failed or
\* Cancelled
C2_ReturnsTerminal ==
    pc = "returned" => report.status \in Terminal

\* C3: a run in which cancel() was called while members were still to be
\* dequeued ends Cancelled with processed < total, and no member is dequeued
\* after the cancel()
C3_CancelStops ==
    (pc = "returned" /\ cancel_midrun) =>
        /\ report.status = CANCELLED
        /\ report.processed < report.total
        /\ ~begun_after_cancel

StatusEdges ==
    {<<RUNNING, PAUSED>>, <<PAUSED, RUNNING>>, <<RUNNING, COMPLETED>>,
     <<RUNNING, FAILED>>, <<RUNNING, CANCELLED>>, <<PAUSED, CANCELLED>>}

\* C4: the status of a job changes only along Running->Paused,
\* Paused->Running, Running->Completed, Running->Failed and
\* Running/Paused->Cancelled; Completed, Failed and Cancelled are never left
C4_StatusEdges ==
    [][(_progress # NoProgress /\ _progress'.status # _progress.status)
         => <<_progress.status, _progress'.status>> \in StatusEdges]_vars

-----------------------------------------------------------------------------
(* Claims about the preview *)

ReadCalls == {"get_group_member_list", "get_login_info", "get_friend_list"}

\* C5: a preview issues no mutating remote call; all it calls are the roster
\* fetch, the login-identity fetch and the friend-list fetch
C5_DryRunReadOnly ==
    \A i \in DOMAIN trace : trace[i].by = "dry" => trace[i].op \in ReadCalls

\* a preview has returned with something to restore
C5_Witness ==
    /\ dry_pc = "returned"
    /\ \E i \in DOMAIN changes :
         changes[i].action = "restore" /\ changes[i].details = <<"card">>

\* C6: the preview has one entry per snapshot member, in order, and its
\* bucket follows the priority bot-self > in the group > not a friend > friend
C6_OneBucketByPriority ==
    dry_pc = "returned" =>
        /\ Len(changes) = Len(members)
        /\ \A i \in DOMAIN members :
             LET u == members[i].user_id
                 c == changes[i]
             IN /\ c.user_id = u
                /\ IF u = dry_bot_user_id
                   THEN c.action = "skip" /\ c.reason = "bot_self"
                   ELSE IF u \in DOMAIN roster
                   THEN \/ c.action = "restore" /\ c.details # <<>>
                        \/ c.action = "skip" /\ c.reason = "in_group_no_change"
                   ELSE IF u \notin dry_friend_ids
                   THEN c.action = "cannot_invite"
                   ELSE c.action = "need_invite"

\* snapshot {1:A, 2:A, 3:A}, live {1:B, 2:A}, friends {3}, cards restored
C6_Witness ==
    /\ dry_pc = "returned"
    /\ Len(members) = 3
    /\ DOMAIN roster = {1, 2}
    /\ roster[1].card = "B"
    /\ roster[2].card = "A"
    /\ dry_friend_ids = {3}
    /\ dry_bot_user_id = NoUser
    /\ restore_cards /\ ~restore_titles /\ ~restore_admins
    /\ changes[1].action = "restore"
    /\ changes[2].action = "skip"
    /\ changes[3].action = "need_invite"

\* the entries of the members that are in the group and are not the bot
InGroup == {i \in DOMAIN changes :
              /\ members[i].user_id # dry_bot_user_id
              /\ members[i].user_id \in DOMAIN roster}

CardDiffers(i) ==
    Norm(roster[members[i].user_id].card) # Norm(members[i].card)

TitleDiffers(i) ==
    Norm(roster[members[i].user_id].title) # Norm(members[i].title)

\* C7, as claimed: a member in the group is "restore" exactly if its card,
\* its title or its being an admin differs from the live value, in either
\* direction, with the flag of that item enabled; otherwise it is "skip"
C7_RestoreIffAnyDiffers ==
    dry_pc = "returned" =>
        \A i \in InGroup :
            /\ changes[i].action \in {"restore", "skip"}
            /\ changes[i].action = "restore" <=>
                  \/ restore_cards /\ CardDiffers(i)
                  \/ restore_titles /\ TitleDiffers(i)
                  \/ /\ restore_admins
                     /\ (members[i].role = "admin")
                          # (roster[members[i].user_id].role = "admin")

\* C7, amended: ... or the member was an admin in the snapshot and is neither
\* admin nor owner in the live group, with the flag of that item enabled
C7_RestoreIffRestorable ==
    dry_pc = "returned" =>
        \A i \in InGroup :
            /\ changes[i].action \in {"restore", "skip"}
            /\ changes[i].action = "restore" <=>
                  \/ restore_cards /\ CardDiffers(i)
                  \/ restore_titles /\ TitleDiffers(i)
                  \/ /\ restore_admins
                     /\ members[i].role = "admin"
                     /\ roster[members[i].user_id].role \notin {"admin", "owner"}

\* a snapshot admin that is a plain member of the live group, same card and
\* title up to None and "", is "restore" for its admin role alone
C7_Witness ==
    /\ dry_pc = "returned"
    /\ \E i \in InGroup :
         /\ members[i].role = "admin"
         /\ roster[members[i].user_id].role = "member"
         /\ members[i].card = NULL /\ roster[members[i].user_id].card = ""
         /\ restore_cards /\ restore_admins
         /\ changes[i].action = "restore"
         /\ changes[i].details = <<"admin">>

-----------------------------------------------------------------------------
(* Claims about an undisturbed run *)

CallsFor(u, op) == {i \in DOMAIN trace : trace[i].op = op /\ trace[i].uid = u}

Sleeps == {i \in DOMAIN trace : trace[i].op = "sleep"}

\* C8: a member that is in the group with the card of the snapshot, cards
\* being all that is restored, gets no set_group_card call and the outcome
\* skipped
C8_EqualCardNoCall ==
    (_progress # NoProgress /\ restore_cards /\ ~restore_titles /\ ~restore_admins) =>
        \A i \in DOMAIN _progress.results :
            LET r == _progress.results[i]
                m == members[r.user_id]
            IN (/\ r.user_id \in DOMAIN roster
                /\ r.message \in {"restored", "no_change"}
                /\ Norm(roster[r.user_id].card) = Norm(m.card))
               => /\ r.status = SKIPPED
                  /\ CallsFor(r.user_id, "set_group_card") = {}

\* C9: there is a throttle sleep between the remote calls made for two
\* different members, and a run that processed N members slept at least
\* N - 1 times
C9_ThrottleBetweenMembers ==
    /\ \A i, j \in DOMAIN trace :
         (i < j /\ trace[i].uid # NoUser /\ trace[j].uid # NoUser
            /\ trace[i].uid # trace[j].uid)
         => \E k \in Sleeps : i < k /\ k < j
    /\ pc = "returned" => Cardinality(Sleeps) >= report.processed - 1

\* C10: the callback runs once after every processed member and sees
\* processed = 1, 2, 3, ...
C10_CallbackPerMember ==
    (pc = "returned" /\ has_callback) =>
        /\ Len(callbacks) = report.processed
        /\ \A i \in DOMAIN callbacks : callbacks[i] = i

-----------------------------------------------------------------------------
(* Claims about failures *)

MemberCalls == {i \in DOMAIN trace : trace[i].uid # NoUser}

\* C11: with continue_on_error off, a failed outcome is the last outcome of
\* the job, the job is Failed with that outcome's message and the failed
\* member's friend-list fetch is the last call made for a member; with
\* continue_on_error on, the job is never Failed and a run that returns has
\* an outcome for every member of its list
C11_FailFast ==
    _progress # NoProgress =>
        LET results == _progress.results
        IN /\ ~continue_on_error =>
                \A i \in DOMAIN results :
                    results[i].status = FAILED =>
                        /\ i = Len(results)
                        /\ _progress.status = FAILED
                        /\ _progress.error_message = results[i].message
                        /\ \A k \in MemberCalls :
                             \/ trace[k].uid # results[i].user_id
                             \/ \A l \in MemberCalls : l <= k
                        /\ trace[CHOOSE k \in MemberCalls :
                                    \A l \in MemberCalls : l <= k].op = "get_friend_list"
                        /\ trace[CHOOSE k \in MemberCalls :
                                    \A l \in MemberCalls : l <= k].uid = results[i].user_id
           /\ continue_on_error =>
                /\ _progress.status # FAILED
                /\ pc = "returned" => Len(results) = Len(all_members)

\* a run of two members has returned Failed after the first one failed
C11_Witness ==
    /\ pc = "returned"
    /\ ~continue_on_error
    /\ Len(all_members) = 2
    /\ Len(report.results) = 1
    /\ report.results[1].status = FAILED
    /\ report.status = FAILED
    /\ report.error_message = "error"

\* the restore of the member of this outcome has returned
RestoreOver(r) ==
    \/ r.message \in {"restored", "no_change"}
    \/ /\ r.message = "marked"
       /\ ~(/\ pc \in {"await_set_group_card", "await_set_group_special_title",
                       "await_set_group_admin"}
            /\ Member(Frame).user_id = r.user_id)

Times(u, op) == Cardinality(CallsFor(u, op))

\* C12: every enabled item of a restore is attempted, whether or not an
\* earlier one raised, and a restore never makes an outcome failed, never
\* counts a failure and never makes the job Failed
C12_RestoreIndependent ==
    _progress # NoProgress =>
        LET results == _progress.results
            errors == {i \in DOMAIN results : results[i].message = "error"}
        IN /\ \A i \in DOMAIN results :
                RestoreOver(results[i]) =>
                    LET u == results[i].user_id
                    IN /\ results[i].status \in {SUCCESS, SKIPPED}
                       /\ Times(u, "set_group_card") = IF restore_cards THEN 1 ELSE 0
                       /\ Times(u, "set_group_special_title")
                             = IF restore_titles THEN 1 ELSE 0
                       /\ Times(u, "set_group_admin")
                             = IF restore_admins /\ members[u].role = "admin"
                               THEN 1 ELSE 0
           /\ _progress.failed = Cardinality(errors)
           /\ _progress.status = FAILED => errors # {}

\* all three items of an admin in the group were attempted and none took
\* effect: the outcome is skipped and the job Completed
C12_Witness ==
    /\ pc = "returned"
    /\ report.status = COMPLETED
    /\ report.failed = 0
    /\ \E i \in DOMAIN report.results :
         LET r == report.results[i]
         IN /\ r.status = SKIPPED
            /\ r.message = "no_change"
            /\ Times(r.user_id, "set_group_card") = 1
            /\ Times(r.user_id, "set_group_special_title") = 1
            /\ Times(r.user_id, "set_group_admin") = 1

-----------------------------------------------------------------------------
(* Claims about one call of rebuild_group *)

\* the rows of the snapshot that are the login identity
BotRows(bot) == {i \in DOMAIN members : members[i].user_id = bot}

OutcomesOf(u) ==
    {k \in DOMAIN _progress.results : _progress.results[k].user_id = u}

\* no remote call is ever made for the login identity, and a preview that
\* returns has the action skip for it
BotUntouched ==
    /\ \A k \in MemberCalls :
         trace[k].uid # bot_user_id /\ trace[k].uid # dry_bot_user_id
    /\ dry_pc = "returned" =>
         \A i \in BotRows(dry_bot_user_id) :
             changes[i].action = "skip" /\ changes[i].reason = "bot_self"
    /\ _progress # NoProgress =>
         \A k \in OutcomesOf(bot_user_id) :
             /\ _progress.results[k].status = SKIPPED
             /\ _progress.results[k].message = "bot_self"

\* C13, as claimed: the row of the login identity has the action skip in a
\* preview and the outcome skipped in a run that went through its list,
\* whatever its role, and no remote call is made for it
C13_BotSkippedAnyRole ==
    /\ BotUntouched
    /\ (pc = "returned" /\ report.status = COMPLETED) =>
         \A i \in BotRows(bot_user_id) : OutcomesOf(bot_user_id) # {}

\* C13, amended: ... whatever its role in a preview, and if its role is
\* member or admin in a run; the row of an owner has no outcome in a run
C13_BotSkipped ==
    /\ BotUntouched
    /\ (pc = "returned" /\ report.status = COMPLETED) =>
         \A i \in BotRows(bot_user_id) :
             IF members[i].role = "owner"
             THEN OutcomesOf(bot_user_id) = {}
             ELSE Cardinality(OutcomesOf(bot_user_id)) = 1

\* a run has skipped the bot's row, an admin that is in the group
C13_Witness ==
    /\ pc = "returned"
    /\ report.status = COMPLETED
    /\ bot_user_id \in DOMAIN roster
    /\ bot_user_id \in current_user_ids
    /\ \E i \in BotRows(bot_user_id) : members[i].role = "admin"
    /\ \E k \in OutcomesOf(bot_user_id) : report.results[k].status = SKIPPED
    /\ restore_cards /\ restore_admins

-----------------------------------------------------------------------------
(* Claims about snapshots *)

\* C14: when backup_group raises, the snapshot is recorded as failed with
\* the error message and nothing else of that run is in the database: no
\* member-history row, no snapshot-member row, and the member table is as it
\* was
C14_FailedLeavesNothing ==
    backup_run.pc = "raised" =>
        /\ db.backups[backup_run.id].status = FAILED
        /\ db.backups[backup_run.id].error_message # NULL
        /\ \A h \in db.history : h.backup_id # backup_run.id
        /\ \A m \in db.backup_members : m.backup_id # backup_run.id
        /\ db.members = backup_run.table0

\* J is B \ A and L is A \ B, member by member
Differences(A, B, J, L) ==
    /\ \A u \in A \cup B \cup J \cup L :
         /\ u \in J <=> (u \in B /\ u \notin A)
         /\ u \in L <=> (u \in A /\ u \notin B)
    /\ J \cap L = {}

\* C15: joined is new minus old, left is old minus new and remained is what
\* is in both, so the three are disjoint and joined with remained is new,
\* left with remained is old; in compare_backups and in backup_group alike
C15_DiffPartition ==
    /\ comparison.pc = "returned" =>
         LET A == {m.user_id : m \in comparison.members_1}
             B == {m.user_id : m \in comparison.members_2}
             r == comparison.result
         IN /\ Differences(A, B, r.joined, r.left)
            /\ r.remained = Cardinality(A \cap B)
            /\ Cardinality(r.joined) + r.remained = Cardinality(B)
            /\ Cardinality(r.left) + r.remained = Cardinality(A)
    /\ backup_run.pc \in {"await_update_members", "await_save_backup_file", "returned"} =>
         LET A == DOMAIN backup_run.table0
             B == DOMAIN backup_run.members_data
             mine == {h \in session.history : h.backup_id = backup_run.id}
         IN /\ Differences(A, B, backup_run.joined_ids, backup_run.left_ids)
            /\ Differences(A, B, {h.user_id : h \in {g \in mine : g.action = "join"}},
                                {h.user_id : h \in {g \in mine : g.action = "leave"}})
            /\ backup_run.pc = "returned" =>
                 /\ db.backups[backup_run.id].new_members = Cardinality(B \ A)
                 /\ db.backups[backup_run.id].left_members = Cardinality(A \ B)

\* old {1, 2} against new {2, 3}, compared and snapshotted
C15_Witness ==
    /\ comparison.pc = "returned"
    /\ {m.user_id : m \in comparison.members_1} = {1, 2}
    /\ {m.user_id : m \in comparison.members_2} = {2, 3}
    /\ comparison.result.joined = {3}
    /\ comparison.result.left = {1}
    /\ comparison.result.remained = 1
    /\ backup_run.pc = "returned"
    /\ backup_run.joined_ids # {}
    /\ backup_run.left_ids # {}

\* C16: a member of both snapshots is in card_changed exactly if its two
\* cards differ once None and "" are taken as the same
C16_CardChangedNormalised ==
    comparison.pc = "returned" =>
        LET users_1 == UsersOf(comparison.members_1)
            users_2 == UsersOf(comparison.members_2)
        IN \A u \in DOMAIN users_1 \cap DOMAIN users_2 :
             (\E c \in comparison.result.card_changed : c.user_id = u)
             <=> Norm(users_1[u].card) # Norm(users_2[u].card)

-----------------------------------------------------------------------------
(* Claims about rejected calls and best-effort context *)

\* C17: when rebuild_group raises because the snapshot is missing, is of
\* another group or has no members, no remote call has been made, there is
\* no job, and the flags of the engine are what they were
C17_RejectedLeavesEngine ==
    (pc = "raised" \/ dry_pc = "raised") =>
        /\ trace = <<>>
        /\ _progress = NoProgress
        /\ ~_cancelled
        /\ ~_paused
        /\ restore_cards /\ ~restore_titles /\ restore_admins

\* C18: a failing friend-list fetch, login fetch or notice never gives a
\* member the outcome failed and never makes the job Failed
C18_ContextFailureDegrades ==
    _progress # NoProgress =>
        /\ _progress.status # FAILED
        /\ _progress.failed = 0
        /\ \A i \in DOMAIN _progress.results : _progress.results[i].status # FAILED

-----------------------------------------------------------------------------
(* Claims about the order of a run *)

\* the snapshot role of the member of an outcome or of a call
RoleOf(u) == members[u].role

\* C19: the outcomes of the rows of role member come before those of the rows
\* of role admin, each group in the order of the list, and a row of role owner
\* has no outcome and no remote call
C19_MembersThenAdmins ==
    _progress # NoProgress =>
        LET results == _progress.results
        IN /\ \A i, j \in DOMAIN results :
                i < j =>
                    /\ ~(RoleOf(results[i].user_id) = "admin"
                         /\ RoleOf(results[j].user_id) = "member")
                    /\ RoleOf(results[i].user_id) = RoleOf(results[j].user_id)
                         => results[i].user_id < results[j].user_id
           /\ \A i \in DOMAIN results : RoleOf(results[i].user_id) # "owner"
           /\ \A k \in MemberCalls : RoleOf(trace[k].uid) # "owner"
           /\ (pc = "returned" /\ report.status = COMPLETED) =>
                \A u \in DOMAIN members :
                    Cardinality({i \in DOMAIN results : results[i].user_id = u})
                      = IF RoleOf(u) = "owner" THEN 0 ELSE 1

\* the list <<admin, member>> has been processed: member first
C19_Witness ==
    /\ pc = "returned"
    /\ Len(members) = 2
    /\ members[1].role = "admin"
    /\ members[2].role = "member"
    /\ Len(report.results) = 2
    /\ report.results[1].user_id = 2
    /\ report.results[2].user_id = 1

-----------------------------------------------------------------------------
(* Claims about overlapping runs *)

IsPrefix(s, t) == Len(s) <= Len(t) /\ \A i \in DOMAIN s : s[i] = t[i]

\* C20: while a job is Running or Paused its record is not replaced or
\* reset: its total stays, its counters do not go back and its outcomes
\* stay
C20_OneActiveJob ==
    [][(_progress # NoProgress /\ _progress.status \in {RUNNING, PAUSED}) =>
          /\ _progress'.total = _progress.total
          /\ _progress'.processed >= _progress.processed
          /\ IsPrefix(_progress.results, _progress'.results)]_vars

-----------------------------------------------------------------------------
(* Claims about pause(), resume() and cancel() during the pause wait *)

\* what a step adds to the trace
Added == {k \in DOMAIN trace' : k > Len(trace)}

\* the counters, the outcomes and the member being processed stay
JobStays ==
    /\ _progress'.processed = _progress.processed
    /\ _progress'.success = _progress.success
    /\ _progress'.failed = _progress.failed
    /\ _progress'.skipped = _progress.skipped
    /\ _progress'.results = _progress.results
    /\ _progress'.current_user \in {_progress.current_user, NoUser}

\* C21: once cancel() has been called while the loop is in the pause wait
\* before a member, no remote call is made for a member, no outcome is
\* appended and no counter changes
C21_CancelInPauseWait ==
    [][(pc = "await_pause_sleep" /\ _cancelled) =>
          /\ JobStays
          /\ \A k \in Added : trace'[k].uid = NoUser]_vars

\* C22, as claimed: while the job is paused and not cancelled no remote call
\* is issued for a member, no counter changes and no throttle sleep is taken
C22_PausedNothingMoves ==
    [][(InRun /\ _paused /\ ~_cancelled) =>
          /\ JobStays
          /\ \A k \in Added : trace'[k].uid = NoUser /\ trace'[k].op # "sleep"]_vars

\* the user ids of the outcomes and of the list, in order
Processed == [i \in DOMAIN _progress.results |-> _progress.results[i].user_id]

Listed == [i \in DOMAIN all_members |-> all_members[i].user_id]

\* C22, amended: while the job is paused and not cancelled no member is
\* dequeued (the member in hand when pause() was called is finished: its
\* calls, its outcome, its throttle sleep), and in the pause wait nothing
\* moves; the outcomes follow the list, one per row, and a run that was
\* neither cancelled nor stopped by a failure has them all
C22_PausedNoNewMember ==
    /\ [][(InRun /\ _paused /\ ~_cancelled) =>
            /\ _progress'.current_user \in {_progress.current_user, NoUser}
            /\ \A k \in Added : trace'[k].uid \in {_progress.current_user, NoUser}
            /\ pc = "await_pause_sleep" => (JobStays /\ Added = {})]_vars
    /\ [](_progress # NoProgress =>
            /\ pc # "await_get_group_member_list" /\ pc # "await_get_login_info"
                 /\ pc # "await_start_msg" => IsPrefix(Processed, Listed)
            /\ (pc = "returned" /\ ~cancel_in_run /\ report.status # FAILED)
                 => Processed = Listed)

\* the run waits, paused, before its second member
C22_Witness ==
    /\ pc = "await_pause_sleep"
    /\ _paused
    /\ ~_cancelled
    /\ ~cancel_in_run
    /\ idx = 2
    /\ _progress.processed = 1
    /\ _progress.status = PAUSED


-----------------------------------------------------------------------------
(* Claims about the outcome of a restore *)

\* C23: with continue_on_error on, a run that returns is Completed, and a
\* member for which set_group_card was called and raised is not given the
\* outcome skipped "no change needed"; a call of set_group_card that returns
\* always adds to restored, so such an outcome after a call means it raised
C23_FailedCardNotSkipped ==
    (_progress # NoProgress /\ continue_on_error) =>
        /\ pc = "returned" => report.status = COMPLETED
        /\ \A i \in DOMAIN _progress.results :
             LET r == _progress.results[i]
             IN (r.status = SKIPPED /\ r.message = "no_change")
                  => Times(r.user_id, "set_group_card") = 0


-----------------------------------------------------------------------------
(* Claims about members that are not in the group *)

\* every remote call the engine knows; none of them adds a user to a group
EngineCalls ==
    {"get_group_member_list", "get_login_info", "get_friend_list",
     "send_group_msg", "set_group_card", "set_group_special_title",
     "set_group_admin", "sleep"}

Mutating == {"set_group_card", "set_group_special_title", "set_group_admin"}

\* C24: a member that is not in the group and is not the login identity has
\* its friend list looked up once; not a friend, it is skipped and no mutating
\* call is made for it; a friend, it is a success and every enabled item of a
\* restore is then called for it; no call adds a user to the group
C24_AbsentMembers ==
    /\ \A k \in DOMAIN trace : trace[k].op \in EngineCalls
    /\ _progress # NoProgress =>
         \A i \in DOMAIN _progress.results :
             LET r == _progress.results[i]
                 u == r.user_id
             IN (u \notin DOMAIN roster /\ r.message # "bot_self") =>
                  /\ Times(u, "get_friend_list") = 1
                  /\ r.message \in {"not_friend", "marked", "error"}
                  /\ r.message = "not_friend" =>
                       /\ r.status = SKIPPED
                       /\ \A k \in MemberCalls :
                            trace[k].uid = u => trace[k].op \notin Mutating
                  /\ r.message = "marked" =>
                       /\ r.status = SUCCESS
                       /\ RestoreOver(r) =>
                            /\ Times(u, "set_group_card")
                                 = IF restore_cards THEN 1 ELSE 0
                            /\ Times(u, "set_group_special_title")
                                 = IF restore_titles THEN 1 ELSE 0
                            /\ Times(u, "set_group_admin")
                                 = IF restore_admins /\ RoleOf(u) = "admin"
                                   THEN 1 ELSE 0

\* of two members that are not in the group the first was not a friend and
\* the second, an admin and a friend, had its card and its admin role set
C24_Witness ==
    /\ pc = "returned"
    /\ roster = <<>>
    /\ Len(report.results) = 2
    /\ report.results[1].message = "not_friend"
    /\ report.results[2].message = "marked"
    /\ report.skipped = 1
    /\ report.success = 1
    /\ Times(report.results[2].user_id, "set_group_card") = 1
    /\ Times(report.results[2].user_id, "set_group_admin") = 1


-----------------------------------------------------------------------------
(* Claims about the outcomes and the end of a run *)

\* C25: whenever the job can be observed there are as many outcomes as
\* members processed, the i-th outcome is that of the i-th row of the list,
\* no user has two outcomes, and a step only ever appends to the outcomes,
\* under every interleaving of cancel(), pause() and resume()
C25_ResultsAppendOnly ==
    /\ [](_progress # NoProgress =>
            /\ Len(_progress.results) = _progress.processed
            /\ \A i \in DOMAIN _progress.results :
                 /\ i \in DOMAIN all_members
                 /\ _progress.results[i].user_id = all_members[i].user_id
            /\ \A i, j \in DOMAIN _progress.results :
                 _progress.results[i].user_id = _progress.results[j].user_id
                   => i = j)
    /\ [][_progress # NoProgress =>
            IsPrefix(_progress.results, _progress'.results)]_vars

\* two outcomes have been appended and cancel() has been called since
C25_Witness ==
    /\ InRun
    /\ _cancelled
    /\ Len(_progress.results) = 2
    /\ _progress.processed = 2
    /\ _progress.results[1].user_id # _progress.results[2].user_id


\* the awaits of the processing of one member
MemberAwaits ==
    {"await_get_friend_list", "await_set_group_card",
     "await_set_group_special_title", "await_set_group_admin"}

\* C26: a run that returns, Completed, Cancelled or Failed, has completed_at
\* set and current_user cleared on the job it returns, and already during the
\* completion notice; while a member is being processed current_user is its
\* user_id; under every interleaving of cancel(), pause() and resume()
C26_StampedAndCleared ==
    /\ pc = "returned" =>
         /\ report.completed_at
         /\ report.current_user = NoUser
         /\ _progress.completed_at
         /\ _progress.current_user = NoUser
    /\ pc = "await_end_msg" =>
         _progress.completed_at /\ _progress.current_user = NoUser
    /\ pc \in MemberAwaits =>
         /\ _progress.current_user = all_members[idx].user_id
         /\ ~_progress.completed_at

\* a run has stopped Failed on its second member
C26_Witness ==
    /\ pc = "returned"
    /\ report.status = FAILED
    /\ report.processed = 2
    /\ report.total = 2
    /\ report.completed_at
    /\ report.current_user = NoUser


-----------------------------------------------------------------------------
(* Claims about the statistics of the preview *)

\* the entries of the preview with this action and reason
Itemized(action, reason) ==
    Cardinality({i \in DOMAIN changes :
                    changes[i].action = action /\ changes[i].reason = reason})

\* C27: in a preview that returns, the count of each bucket is the number of
\* entries with that decision: will_skip_bot the skips of the login identity,
\* will_skip_already_in the skips of members in the group with nothing to
\* change, will_skip_not_friend the members that cannot be invited
C27_CountsMatchItems ==
    dry_pc = "returned" =>
        /\ stats.will_skip_bot = Itemized("skip", "bot_self")
        /\ stats.will_skip_already_in = Itemized("skip", "in_group_no_change")
        /\ stats.will_skip_not_friend = Itemized("cannot_invite", "not_friend")


-----------------------------------------------------------------------------
(* Claims about what a snapshot leaves in the database *)

\* the events of the snapshot that is being taken
EventsOf(s, action) ==
    {h \in s.history : h.backup_id = backup_run.id /\ h.action = action}

\* C28: a snapshot that succeeded has a join event for every fetched user
\* that was not in the member table and a leave event for every user of the
\* member table that was not fetched, and no other event; its new_members and
\* left_members are the numbers of those; the first snapshot of a group has a
\* join for every fetched user; a step only ever adds events, with the id of
\* the snapshot that is being taken
C28_EventsPerDelta ==
    /\ [](backup_run.pc = "returned" =>
            LET A == DOMAIN backup_run.table0
                B == DOMAIN backup_run.members_data
                b == db.backups[backup_run.id]
            IN /\ EventsOf(db, "join") = MemberHistory(B \ A, "join", backup_run.id)
               /\ EventsOf(db, "leave") = MemberHistory(A \ B, "leave", backup_run.id)
               /\ \A h \in db.history :
                    h.backup_id = backup_run.id => h.action \in {"join", "leave"}
               /\ b.new_members = Cardinality(EventsOf(db, "join"))
               /\ b.left_members = Cardinality(EventsOf(db, "leave"))
               /\ backup_run.id = 1 =>
                    {h.user_id : h \in EventsOf(db, "join")} = B)
    /\ [][/\ db.history \subseteq db'.history
          /\ \A h \in db'.history \ db.history : h.backup_id = backup_run'.id]_vars

\* the first snapshot of a group, of three members
C28_Witness ==
    /\ backup_run.pc = "returned"
    /\ backup_run.id = 1
    /\ DOMAIN backup_run.members_data = GroupUsers
    /\ Cardinality(db.history) = Cardinality(GroupUsers)
    /\ db.backups[1].new_members = Cardinality(GroupUsers)

\* C29: after a snapshot that succeeded the member table of the group is the
\* fetched list, row by row, without the rows of the users that were not
\* fetched, and no step ever changes the rows of another group
C29_ReplaceAll ==
    /\ [](backup_run.pc = "returned" =>
            /\ DOMAIN db.members = DOMAIN backup_run.members_data
            /\ \A u \in DOMAIN db.members :
                 db.members[u].card = backup_run.members_data[u].card
            /\ \A u \in DOMAIN backup_run.table0 :
                 u \notin DOMAIN backup_run.members_data => u \notin DOMAIN db.members)
    /\ [][db'.others = db.others /\ session'.others = session.others]_vars

\* user 1 has left, user 3 has joined, the other group has its row
C29_Witness ==
    /\ backup_run.pc = "returned"
    /\ DOMAIN backup_run.table0 = {1, 2}
    /\ DOMAIN backup_run.members_data = {2, 3}
    /\ DOMAIN db.members = {2, 3}
    /\ db.others = OtherGroup


-----------------------------------------------------------------------------
(* Claims about pruning *)

Of(records, group_id) == {r \in records : r.group_id = group_id}

Least(a, b) == IF a <= b THEN a ELSE b

\* C30: after a call of cleanup_old_backups that returned, the group has
\* the keep_count newest of its records, or all of them if it had fewer: no
\* record that went is newer than one that stayed; the file of a record that
\* went is gone, whether or not it existed; the files of the records that
\* stayed and the records of the other group are as they were; and a call
\* after one that returned changes nothing
C30_PruneKeepsNewest ==
    /\ [](prune.returned > 0 /\ prune.raised = 0 /\ prune.pc = "idle" =>
            LET before == Of(prune.records0, Group)
                after == Of(archive.records, Group)
                gone == before \ after
            IN /\ after \subseteq before
               /\ Cardinality(after) = Least(Cardinality(before), prune.keep_count)
               /\ \A r \in after, d \in gone : r.created_at >= d.created_at
               /\ \A d \in gone : d.id \notin archive.files
               /\ archive.files = prune.files0 \ {d.id : d \in gone}
               /\ archive.records \ after = prune.records0 \ before)
    /\ [][(prune.returned > 0 /\ prune.raised = 0 /\ prune'.raised = 0)
            => archive' = archive]_vars

\* of two records of the group one was kept; the one that went named a file
\* that was missing already; the file of the record of the other group is
\* there
C30_Witness ==
    /\ prune.returned = 1
    /\ prune.raised = 0
    /\ prune.pc = "idle"
    /\ prune.keep_count = 1
    /\ Cardinality(Of(prune.records0, Group)) = 2
    /\ Cardinality(Of(archive.records, Group)) = 1
    /\ Cardinality(Of(archive.records, "H")) = 1
    /\ \E d \in prune.records0 \ archive.records :
         d.file_path # NULL /\ d.id \notin prune.files0
    /\ \E r \in Of(archive.records, "H") : r.id \in archive.files


-----------------------------------------------------------------------------
(* Claims about the totals of a run *)

\* the rows of the list that a run processes
Processable == {i \in DOMAIN members : members[i].role \in {"member", "admin"}}

\* C33: the job of a run that returned Completed has total = the number of
\* rows of the list and processed = the number of rows of role member or
\* admin, so processed = total exactly if no row has another role; under
\* every interleaving of cancel(), pause() and resume()
C33_ProcessedCountsRoles ==
    (pc = "returned" /\ report.status = COMPLETED) =>
        /\ report.total = Len(members)
        /\ report.processed = Cardinality(Processable)
        /\ report.processed = report.total
             <=> \A i \in DOMAIN members : members[i].role # "owner"

\* a list of a member and an owner has been gone through: 1 of 2
C33_Witness ==
    /\ pc = "returned"
    /\ report.status = COMPLETED
    /\ Len(members) = 2
    /\ \E i \in DOMAIN members : members[i].role = "owner"
    /\ report.total = 2
    /\ report.processed = 1


-----------------------------------------------------------------------------
(* Claims about the live roster fetch and the admin call *)

\* the run is past its roster fetch and the fetch gave nothing of a
\* non-empty group: the fetch failed
FetchFailed ==
    /\ _progress # NoProgress
    /\ pc \notin {"idle", "await_get_group_member_list"}
    /\ ~(DOMAIN roster \subseteq current_user_ids)

\* C35: a run whose roster fetch failed goes on: no row gets the outcome of
\* the present path and every row processed is the engine's own account or
\* went through the friend check; the job is Failed only after a row ended
\* in an error; a preview whose roster fetch failed raised with no item, no
\* count and no further call
C35_FetchFailureDegrades ==
    /\ FetchFailed =>
         /\ \A i \in DOMAIN _progress.results :
              _progress.results[i].message
                  \in {"bot_self", "marked", "not_friend", "error"}
         /\ \A k \in DOMAIN trace :
              (trace[k].by = "run" /\ trace[k].uid # NoUser
                 /\ trace[k].op \in {"set_group_card", "set_group_special_title",
                                     "set_group_admin"})
                => Times(trace[k].uid, "get_friend_list") = 1
         /\ _progress.status = FAILED =>
              \E i \in DOMAIN _progress.results :
                  _progress.results[i].message = "error"
         /\ (pc = "returned" /\ _progress.status = COMPLETED) =>
              _progress.processed = Cardinality(Processable)
    /\ dry_pc = "raised_no_roster" =>
         /\ changes = <<>>
         /\ stats = NoStats
         /\ \A k \in DOMAIN trace : trace[k].op = "get_group_member_list"

\* the fetch of the roster of a group of two failed and the run completed
\* with both rows through the friend check
C35_Witness ==
    /\ FetchFailed
    /\ pc = "returned"
    /\ _progress.status = COMPLETED
    /\ Cardinality(DOMAIN roster) = 2
    /\ Len(_progress.results) = 2
    /\ \A i \in DOMAIN _progress.results :
         _progress.results[i].message \in {"marked", "not_friend"}

\* C36: every set_group_admin call is made by a run, never by a preview,
\* with enable = true, for a row of role admin and with restore_admins on
C36_NeverDemotes ==
    \A k \in DOMAIN trace :
        trace[k].op = "set_group_admin" =>
            /\ trace[k].by = "run"
            /\ trace[k].arg = "true"
            /\ trace[k].uid \in DOMAIN members
            /\ RoleOf(trace[k].uid) = "admin"
            /\ restore_admins

\* a run over an admin row and a member row returned after one admin call
C36_Witness ==
    /\ pc = "returned"
    /\ \E i, j \in DOMAIN members :
         /\ members[i].role = "admin"
         /\ members[j].role = "member"
         /\ Times(i, "set_group_admin") = 1
         /\ Times(j, "set_group_card") + Times(j, "set_group_special_title") > 0
         /\ Times(j, "set_group_admin") = 0


-----------------------------------------------------------------------------
(* Claims about the event log and the member table *)

\* the events of user u in the log
UserEvents(u) == {h \in db.history : h.user_id = u}

\* the latest event of user u, the snapshots being taken one after another
LastEvent(u) ==
    CHOOSE h \in UserEvents(u) : \A g \in UserEvents(u) : g.backup_id <= h.backup_id

\* the earlier event nearest to event h of the same user
Earlier(h) == {g \in UserEvents(h.user_id) : g.backup_id < h.backup_id}

\* the events of user u are a join, a leave, a join and so on
Alternating(u) ==
    \A h \in UserEvents(u) :
        IF Earlier(h) = {}
        THEN h.action = "join"
        ELSE LET g == CHOOSE e \in Earlier(h) :
                          \A d \in Earlier(h) : d.backup_id <= e.backup_id
             IN g.action # h.action

\* C39: between two calls of backup_group, after a call that returned or
\* raised, the users whose latest event is a join are the users of the
\* member table and the events of every user alternate from a join on
C39_LogMatchesTable ==
    backup_run.pc \in {"idle", "returned", "raised"} =>
        /\ {u \in GroupUsers : UserEvents(u) # {} /\ LastEvent(u).action = "join"}
             = DOMAIN db.members
        /\ \A u \in GroupUsers : Alternating(u)


-----------------------------------------------------------------------------
(* Claims about cancel() and pause() around the start of a run *)

\* the run is in its up-front fetch of the roster or of the login identity
Fetching == pc \in {"await_get_group_member_list", "await_get_login_info"}

\* C34: a run starts with _cancelled and _paused cleared, whatever was
\* called before, and a run that was cancelled during its up-front fetch
\* returns a job of status Cancelled with processed = 0
C34_EarlyCancelEndsCancelled ==
    /\ [][(pc = "idle" /\ pc' # "idle") => (~_cancelled' /\ ~_paused')]_vars
    /\ []((Fetching /\ _cancelled) =>
            [](pc = "returned" =>
                 (report.status = CANCELLED /\ report.processed = 0)))


-----------------------------------------------------------------------------
(* Claims about a preview and a run of one engine *)

\* the outcomes a run recorded for user u
RunOutcomes(u) ==
    {report.results[i] : i \in {j \in DOMAIN report.results :
                                   report.results[j].user_id = u}}

\* the preview was called before the run, which so had the preview's
\* flags, and both saw one login identity and one friend list
SameInputs ==
    /\ trace # <<>>
    /\ trace[1].by = "dry"
    /\ dry_bot_user_id # NoUser
    /\ bot_user_id = dry_bot_user_id
    /\ \A i \in DOMAIN report.results :
         /\ report.results[i].message = "marked"
              => report.results[i].user_id \in dry_friend_ids
         /\ report.results[i].message = "not_friend"
              => report.results[i].user_id \notin dry_friend_ids

\* the outcomes of the run are those of a run whose calls all succeeded:
\* the roster was fetched, no row ended in an error and no row whose card,
\* title or role was set is left without a restored item
NoCallFailed ==
    /\ DOMAIN roster \subseteq current_user_ids
    /\ \A i \in DOMAIN report.results :
         LET r == report.results[i]
         IN /\ r.message # "error"
            /\ r.user_id \in DOMAIN roster
                 => r.message \in {"bot_self", "restored", "no_change"}
            /\ r.message = "no_change"
                 => /\ Times(r.user_id, "set_group_card") = 0
                    /\ Times(r.user_id, "set_group_special_title") = 0
                    /\ Times(r.user_id, "set_group_admin") = 0

\* the outcome of a run that answers an item of the preview
Answers(c, r) ==
    \/ c.action = "restore" /\ r.status = SUCCESS /\ r.message = "restored"
    \/ c.action = "skip" /\ r.status = SKIPPED
    \/ c.action = "cannot_invite" /\ r.status = SKIPPED
    \/ c.action = "need_invite" /\ r.status = SUCCESS /\ r.message = "marked"

\* C31: a preview and a run on the same inputs whose calls all succeeded
\* agree: every item of the preview has an outcome in the run, restore
\* with success (restored), skip and cannot_invite with skipped,
\* need_invite with success (marked)
C31_PreviewMatchesRun ==
    (dry_pc = "returned" /\ pc = "returned" /\ SameInputs /\ NoCallFailed) =>
        \A i \in DOMAIN changes :
            /\ RunOutcomes(changes[i].user_id) # {}
            /\ \A r \in RunOutcomes(changes[i].user_id) : Answers(changes[i], r)

\* the rows of a run that went through _restore_member_info
Restorable ==
    {report.results[i].user_id : i \in {j \in DOMAIN report.results :
        report.results[j].message \in {"restored", "no_change", "marked"}}}

\* C32: a run that returned made the same restore calls for every row of
\* it: the card of all or of none, the title of all or of none, the admin
\* call for all or for none of the rows of role admin
C32_SameRestoreForAll ==
    pc = "returned" =>
        \A u \in Restorable, v \in Restorable :
            /\ Times(u, "set_group_card") = Times(v, "set_group_card")
            /\ Times(u, "set_group_special_title")
                 = Times(v, "set_group_special_title")
            /\ (RoleOf(u) = "admin" /\ RoleOf(v) = "admin")
                 => Times(u, "set_group_admin") = Times(v, "set_group_admin")


-----------------------------------------------------------------------------
(* Claims about the termination of a run *)

\* the run has returned its final report
Returned == pc = "returned" /\ report # NoProgress /\ report.completed_at

\* C37 as stated: if every pause() is followed by a resume() or a cancel(),
\* a run that was started returns with completed_at set, and a run that
\* is paused and from then on neither resumed nor cancelled does not return
C37_ReturnsIfResumed ==
    /\ [](_paused => <>(~_paused \/ _cancelled))
         => [](pc # "idle" => <>Returned)
    /\ []((InRun /\ [](_paused /\ ~_cancelled)) => [](pc # "returned"))

\* C37: if from some time on the run is not paused or is cancelled, a run
\* that was started returns with completed_at set, and a run leaves the
\* wait of its pause loop only resumed or cancelled, so that a run waiting
\* there and from then on neither resumed nor cancelled does not return
C37_ReturnsIfLeftResumed ==
    /\ <>[](~_paused \/ _cancelled) => [](pc # "idle" => <>Returned)
    /\ [][(pc = "await_pause_sleep" /\ pc' # pc) => (~_paused \/ _cancelled)]_vars
    /\ []((pc = "await_pause_sleep" /\ [](_paused /\ ~_cancelled))
            => [](pc # "returned"))

\* a run that waited in its pause loop before its second row has been
\* resumed: the next return of the sleep ends the wait
C37_Witness ==
    /\ pc = "await_pause_sleep"
    /\ ~_paused
    /\ ~_cancelled
    /\ _progress.status = RUNNING
    /\ _progress.processed = 1

-----------------------------------------------------------------------------
(* Claims about two overlapping backup_group calls *)

\* the events of the log that run id recorded
Recorded(id) == {h \in db.history : h.backup_id = id}

\* C38: when two overlapping backup_group calls of one group have both
\* returned, the member table has one row per user of it and no join or
\* leave of a user is recorded once by each of the two runs
C38_OverlapRecordsOnce ==
    (backup_run.pc = "returned" /\ waiting.run.pc = "returned") =>
        /\ Cardinality(MemberRowsOf(Group, db.members))
             = Cardinality(DOMAIN db.members)
        /\ \A h \in Recorded(backup_run.id), g \in Recorded(waiting.run.id) :
             ~(h.user_id = g.user_id /\ h.action = g.action)
====
